---------------------------- MODULE Spec2Model ----------------------------
(***************************************************************************)
(* A model of the Drax codec framework (drax/src): the variable-length     *)
(* integer futures of delegate/primitive.rs, the container and string      *)
(* delegates of delegate/{vec,map,option,string}.rs and the NBT tree codec *)
(* of delegate/nbt.rs.                                                     *)
(*                                                                         *)
(* Machine integers are modelled with their width.  A w-bit word is a      *)
(* sequence of w bits, least significant first (index i holds bit i-1), so *)
(* that u32, u64 and usize values, which exceed the range of the checker's *)
(* integers, keep their exact value.                                       *)
(***************************************************************************)
EXTENDS Integers, Sequences, FiniteSets, TLC

(***************************************************************************)
(* Bounds of the model.                                                    *)
(***************************************************************************)
\* most bytes a stream or sink hands over in one poll before answering Pending
MaxBurst == 2
\* most continuation bytes beyond the decoder's ceiling that a raw stream carries
MaxExtra == 1

(***************************************************************************)
(* Machine words.                                                          *)
(***************************************************************************)
I32Min == (-2147483647) - 1
I32Max == 2147483647

\* bit i (0-based) of the two's complement form of the 32-bit signed v,
\* sign-extended above bit 31: the casts `as u32`, `as u64`, `as usize`.
BitOf(v, i) == IF i >= 31 THEN (IF v < 0 THEN 1 ELSE 0) ELSE (v \div (2 ^ i)) % 2

\* a word given bit by bit, as a sequence of w bits
Word(f, w) == SubSeq(f, 1, w)

\* `v as uW` for a 32-bit signed v: the w-bit word of v
ToBits(v, w) == Word([i \in 1..w |-> BitOf(v, i - 1)], w)

ZeroBits(w) == Word([i \in 1..w |-> 0], w)

BitAnd(a, b) ==
    LET w == Len(a) IN Word([i \in 1..w |-> IF a[i] = 1 /\ b[i] = 1 THEN 1 ELSE 0], w)

BitOr(a, b) ==
    LET w == Len(a) IN Word([i \in 1..w |-> IF a[i] = 1 \/ b[i] = 1 THEN 1 ELSE 0], w)

\* overflowing_shr(n).0 : logical shift right, the amount taken modulo the width
Shr(a, n) ==
    LET w == Len(a)
        s == n % w
    IN  Word([i \in 1..w |-> IF i + s <= w THEN a[i + s] ELSE 0], w)

\* overflowing_shl(n).0 : shift left, the amount taken modulo the width
Shl(a, n) ==
    LET w == Len(a)
        s == n % w
    IN  Word([i \in 1..w |-> IF i - s >= 1 THEN a[i - s] ELSE 0], w)

\* `word as u8`: the low eight bits as a byte 0..255
LowByte(a) ==
    a[1] + 2 * a[2] + 4 * a[3] + 8 * a[4] + 16 * a[5] + 32 * a[6] + 64 * a[7] + 128 * a[8]

RECURSIVE BitsSum(_, _)
\* the unsigned value of the n low bits of a (n <= 31)
BitsSum(a, n) == IF n = 0 THEN 0 ELSE a[n] * (2 ^ (n - 1)) + BitsSum(a, n - 1)

\* a 32-bit word read as i32
ToI32(a) == IF a[32] = 1 THEN (BitsSum(a, 31) - I32Max) - 1 ELSE BitsSum(a, 31)

\* a word shifted left by whole bits after a cast from i32: (v as iW) << s, used
\* to build 64-bit sample values
WordOf(v, w, s) == Shl(ToBits(v, w), s)

(***************************************************************************)
(* The variable-length integer futures (primitive.rs, declare_var_num_ext) *)
(***************************************************************************)
\* $bit_limit of the two instantiations
BitLimit32 == 35
BitLimit64 == 70
\* mutant: a ceiling one byte too high
BitLimit_Loose(w) == IF w = 32 THEN BitLimit32 + 7 ELSE BitLimit64 + 7
BitLimit(w) == IF w = 32 THEN BitLimit32 ELSE BitLimit64

\* number of low bits that $and_check (0xFFFFFF80, 0xFFFFFFFFFFFFFF80) clears
AndCheckLow == 7
\* mutant: a mask that clears one bit more
AndCheck_Wide(w) == Word([i \in 1..w |-> IF i <= AndCheckLow + 1 THEN 0 ELSE 1], w)
AndCheck(w) == Word([i \in 1..w |-> IF i <= AndCheckLow THEN 0 ELSE 1], w)

\* capacity of the buffer of one poll_read: `[0u8; 1]`
ReadBufCap == 1

\* mutant: the continuation flag is not set
ContByte_NoFlag(value) == LowByte(value) % 128
\* (value & 0x7F | 0x80) as u8
ContByte(value) == (LowByte(value) % 128) + 128

RECURSIVE SizeLoop(_, _)
SizeLoop(temp, size) ==
    IF BitAnd(temp, AndCheck(Len(temp))) = ZeroBits(Len(temp))
    THEN size + 1
    ELSE SizeLoop(Shr(temp, 7), size + 1)

\* mutant: the count starts at one
SizeVarNum_FromOne(word) == SizeLoop(word, 1)
\* size_var_int / size_var_long on the word of the value
SizeVarNum(word) == SizeLoop(word, 0)

(* One poll of WriteVarInt / WriteVarLong.  me is the future's stored value,  *)
(* ans the sink's answers to the successive poll_write calls of this poll:    *)
(* "Ok1" (one byte accepted), "Ok0" (ready, nothing accepted), "Err"; when    *)
(* the answers run out the sink answers Pending.  The result holds the        *)
(* future's stored value afterwards, the bytes the sink accepted, whether a   *)
(* call was answered Ok0, and the poll's outcome.                             *)
RECURSIVE WriteLoop(_, _, _, _, _)
WriteLoop(value, me, out, short, ans) ==
    IF ans = <<>>
    THEN [res |-> "Pending", me |-> me, out |-> out, short |-> short]
    ELSE IF Head(ans) = "Err"
    THEN [res |-> "IoError", me |-> me, out |-> out, short |-> short]
    ELSE LET last  == BitAnd(value, AndCheck(Len(value))) = ZeroBits(Len(value))
             byte  == IF last THEN LowByte(value) ELSE ContByte(value)
             out2  == IF Head(ans) = "Ok1" THEN Append(out, byte) ELSE out
             sh2   == short \/ Head(ans) = "Ok0"
             next  == Shr(value, 7)
         IN  IF last
             THEN [res |-> "Ok", me |-> me, out |-> out2, short |-> sh2]
             ELSE IF next[Len(next)] = 1
             THEN [res |-> "Panic", me |-> me, out |-> out2, short |-> sh2]
             ELSE WriteLoop(next, next, out2, sh2, Tail(ans))

\* mutant: the shifted remainder is not stored back into the future
WriteVarPoll_NoStore(me, ans) == [WriteLoop(me, me, <<>>, FALSE, ans) EXCEPT !.me = me]
WriteVarPoll(me, ans) == WriteLoop(me, me, <<>>, FALSE, ans)

(* One poll of ReadVarInt / ReadVarLong.  me = [value, bit_offset] is the     *)
(* future's state, stream the bytes of the source, pos the bytes consumed so  *)
(* far and k the number of bytes the source hands over in this poll before it *)
(* answers Pending.  A source at its end answers "ready, nothing filled".     *)
RECURSIVE ReadLoop(_, _, _, _)
ReadLoop(me, stream, pos, k) ==
    IF me.bit_offset >= BitLimit(Len(me.value))
    THEN [res |-> "VarNumTooLarge", me |-> me, pos |-> pos]
    ELSE IF pos >= Len(stream)
    THEN [res |-> "EOF", me |-> me, pos |-> pos]
    ELSE IF k = 0
    THEN [res |-> "Pending", me |-> me, pos |-> pos]
    ELSE LET byte == stream[pos + 1]
             w    == Len(me.value)
             me2  == [value |-> BitOr(me.value, Shl(ToBits(byte % 128, w), me.bit_offset)),
                      bit_offset |-> me.bit_offset + 7]
         IN  IF byte < 128
             THEN [res |-> "Ok", me |-> me2, pos |-> pos + ReadBufCap]
             ELSE ReadLoop(me2, stream, pos + ReadBufCap, k - 1)

\* read_var_int / read_var_long: the fresh future
NewReader(w) == [value |-> ZeroBits(w), bit_offset |-> 0]

\* mutant: a source at its end is answered with the value read so far
ReadVarPoll_ValueAtEnd(me, stream, pos, k) ==
    [ReadLoop(me, stream, pos, k) EXCEPT
        !.res = IF @ = "EOF" /\ pos > 0 THEN "Ok" ELSE @]
\* mutant: a last byte with payload bits beyond the width is refused
ReadVarPoll_Strict(me, stream, pos, k) ==
    LET r == ReadLoop(me, stream, pos, k)
        w == Len(me.value)
    IN  IF r.res = "Ok" /\ r.me.bit_offset = BitLimit(w)
             /\ stream[r.pos] >= 2 ^ (w - (BitLimit(w) - 7))
        THEN [r EXCEPT !.res = "VarNumTooLarge"]
        ELSE r
\* mutant: the accumulator and offset live in locals that each poll starts afresh
ReadVarPoll_LocalAcc(me, stream, pos, k) == ReadLoop(NewReader(Len(me.value)), stream, pos, k)
ReadVarPoll(me, stream, pos, k) == ReadLoop(me, stream, pos, k)

\* The whole of write_var_int on a sink that is always ready (a Cursor).
WriteVarNum(word) == WriteVarPoll(word, [i \in 1..(Len(word) \div 7 + 1) |-> "Ok1"])

\* The whole of read_var_int on a source that is always ready (a Cursor).
ReadVarNum(w, stream, pos) == ReadVarPoll(NewReader(w), stream, pos, Len(stream) + 1)


(***************************************************************************)
(* Results, sizes and fixed-width numbers (error.rs, transport.rs,         *)
(* primitive.rs define_primitive_bind).                                    *)
(***************************************************************************)
Ok == [e |-> "Ok"]
Err(kind) == [e |-> kind]
\* TransportError::LimitExceeded(expected, received, context)
LimitExceeded(lim, got, label) == [e |-> "LimitExceeded", lim |-> lim, got |-> got, label |-> label]

\* Size::Constant / Size::Dynamic
Constant(n) == [k |-> "Constant", n |-> n]
Dynamic(n) == [k |-> "Dynamic", n |-> n]

(* A count is a usize.  The module holds a usize as the integer nearest to 0  *)
(* that is congruent to it modulo 2^64: 0, 1, 2, ... stand for themselves and *)
(* -1, -2, ... for usize::MAX, usize::MAX - 1, ...  The integer sum of two    *)
(* counts is then their wrapping sum.                                         *)
\* x + y carries out of the usize
UsizeCarry(x, y) ==
    \/ x < 0 /\ y < 0
    \/ x < 0 /\ y >= 0 /\ x + y >= 0
    \/ x >= 0 /\ y < 0 /\ x + y >= 0

\* "attempt to add with overflow"
SizePanic == [k |-> "Panic", n |-> 0]

\* the outcome of an add whose counts are x and y: with overflow checks a
\* carry panics, without them the sum wraps
AddOutcome(checks, x, y, sum) == IF checks /\ UsizeCarry(x, y) THEN SizePanic ELSE sum

\* impl Add for Size
SizeAdd(a, b) ==
    IF a.k = "Constant" /\ b.k = "Constant" THEN Constant(a.n + b.n) ELSE Dynamic(a.n + b.n)

\* impl Add<usize> for Size
SizeAddRaw(a, n) == Dynamic(a.n + n)

\* the byte 0..255 made of bits lo..lo+7 (1-based) of a word
ByteAt(word, lo) ==
    word[lo] + 2 * word[lo + 1] + 4 * word[lo + 2] + 8 * word[lo + 3]
    + 16 * word[lo + 4] + 32 * word[lo + 5] + 64 * word[lo + 6] + 128 * word[lo + 7]

\* to_be_bytes of a word: most significant byte first
ToBE(word) ==
    LET n == Len(word) \div 8
    IN  SubSeq([j \in 1..n |-> ByteAt(word, 8 * (n - j) + 1)], 1, n)

\* from_be_bytes: the word of n bytes, most significant first
FromBE(bytes) ==
    LET n == Len(bytes)
    IN  Word([i \in 1..(8 * n) |-> (bytes[n - ((i - 1) \div 8)] \div (2 ^ ((i - 1) % 8))) % 2], 8 * n)

\* an unsigned word of at most 31 significant bits as a number
ToNat(word) == BitsSum(word, IF Len(word) > 31 THEN 31 ELSE Len(word))

\* read_exact of n bytes at pos of a Cursor: the bytes, or UnexpectedEof (an
\* IoError) with the cursor left at the end of the stream
ReadExact(stream, pos, n) ==
    IF n <= Len(stream) - pos
    THEN [res |-> Ok, bytes |-> SubSeq(stream, pos + 1, pos + n), pos |-> pos + n]
    ELSE [res |-> Err("IoError"), bytes |-> <<>>, pos |-> Len(stream)]

\* a < b for unsigned words of equal width
WordLess(a, b) ==
    \E i \in 1..Len(a) : a[i] = 0 /\ b[i] = 1 /\ \A j \in (i + 1)..Len(a) : a[j] = b[j]

\* alloc::raw_vec::capacity_overflow: a request of cap elements of elem bytes each
\* exceeds isize::MAX bytes.  cap is an i32 cast to usize and elem at most a few
\* dozen bytes, so the product exceeds isize::MAX exactly when cap has its top
\* bit set and the element is not zero-sized.
CapacityOverflow(cap, elem) == elem > 0 /\ cap[Len(cap)] = 1

\* A request the allocator refuses ends the process (handle_alloc_error: "memory
\* allocation of N bytes failed", abort).  Whether a request is served depends on
\* the host: one host serves every request, the other refuses those of more than
\* i32::MAX bytes.  len elements of elem bytes make such a request:
LargeRequest(len, elem) == elem > 0 /\ len > I32Max \div elem

\* hashbrown's capacity_to_buckets for a capacity of at least 8: the exponent of
\* the next power of two of cap * 8 / 7, which is the least k with
\* cap <= 7 * 2^(k - 3)
BucketsExp(cap) ==
    CHOOSE k \in 3..32 :
        /\ k = 32 \/ cap <= 7 * (2 ^ (k - 3))
        /\ \A j \in 3..(k - 1) : cap > 7 * (2 ^ (j - 3))
\* HashMap::with_capacity(cap) for entries of pair bytes requests
\* buckets * pair + buckets + 16 bytes (one control byte a bucket and one group
\* of 16, x86-64); the request is of more than i32::MAX bytes
LargeTable(cap, pair) ==
    /\ cap >= 8
    /\ \/ BucketsExp(cap) >= 31
       \/ 2 ^ BucketsExp(cap) > (I32Max - 16) \div (pair + 1)
\* hashbrown's capacity overflow: cap * 8 does not fit a usize, which for an i32
\* cast to usize is the case exactly when it was negative
TableOverflow(cap) == cap[Len(cap)] = 1

(***************************************************************************)
(* Delegates (vec.rs, map.rs, option.rs, string.rs, primitive.rs).  A      *)
(* delegate is a record [d |-> name, ...]; a value of its ComponentType is *)
(* a number, a sequence of UTF-8 bytes (String), [some |-> FALSE] or       *)
(* [some |-> TRUE, v |-> x] (Option), a sequence (Vec) or a sequence of    *)
(* <<key, value>> pairs with distinct keys in iteration order (HashMap).   *)
(***************************************************************************)
U8 == [d |-> "u8"]
I32 == [d |-> "i32"]
VarInt == [d |-> "VarInt"]
String == [d |-> "String"]
Maybe(t) == [d |-> "Maybe", t |-> t]
Vec(t) == [d |-> "Vec", t |-> t]
LimitedVec(t, n) == [d |-> "LimitedVec", t |-> t, n |-> n]
HashMap(k, v) == [d |-> "HashMap", kt |-> k, vt |-> v]
LimitedMap(k, v, n) == [d |-> "LimitedMap", kt |-> k, vt |-> v, n |-> n]
LimitedString(n) == [d |-> "LimitedString", n |-> n]
\* [T; N]
Array(t, n) == [d |-> "Array", t |-> t, n |-> n]

None == [some |-> FALSE]
Some(x) == [some |-> TRUE, v |-> x]

\* const STRING_DEFAULT_CAP: i32 = 32767 * 4
STRING_DEFAULT_CAP == 32767 * 4

RoundUp(n, a) == ((n + a - 1) \div a) * a

RECURSIVE ElemAlign(_)
\* align_of::<T::ComponentType>() on a 64-bit target
ElemAlign(t) ==
    CASE t.d = "u8" -> 1
      [] t.d \in {"i32", "VarInt"} -> 4
      [] t.d \in {"Maybe", "Array"} -> ElemAlign(t.t)
      [] OTHER -> 8

RECURSIVE Niches(_)
\* the number of bit patterns of the type that are no value (its largest niche),
\* of which Option takes one for None; counts of 2^16 - 2 and more are kept as
\* 2^16 - 2.  A scalar has none, a HashMap one (the null control pointer), a
\* String or Vec the capacities above isize::MAX, an array those of its element;
\* an Option of a type without one gets a tag as wide as the payload's
\* alignment whose values other than 0 and 1 are free
Niches(t) ==
    LET many == 2 ^ 16 - 2
    IN  CASE t.d \in {"u8", "i32", "VarInt"} -> 0
          [] t.d \in {"HashMap", "LimitedMap"} -> 1
          [] t.d = "Array" -> IF t.n >= 1 THEN Niches(t.t) ELSE 0
          [] t.d = "Maybe" ->
               IF Niches(t.t) = 0 THEN (IF ElemAlign(t.t) = 1 THEN 2 ^ 8 - 2 ELSE many)
               ELSE IF Niches(t.t) >= many THEN many
               ELSE Niches(t.t) - 1
          [] OTHER -> many

\* Option<T> is as large as T: T has a bit pattern left for None
HasNiche(t) == Niches(t) > 0

RECURSIVE ElemSize(_)
\* size_of::<T::ComponentType>() on a 64-bit target
ElemSize(t) ==
    CASE t.d = "u8" -> 1
      [] t.d \in {"i32", "VarInt"} -> 4
      [] t.d \in {"String", "LimitedString", "Vec", "LimitedVec"} -> 24
      [] t.d \in {"HashMap", "LimitedMap"} -> 48
      [] t.d = "Array" -> t.n * ElemSize(t.t)
      [] t.d = "Maybe" ->
           IF HasNiche(t.t) THEN ElemSize(t.t)
           ELSE RoundUp(ElemSize(t.t) + 1, ElemAlign(t.t))
\* size_of::<(K::ComponentType, V::ComponentType)>()
PairSize(kt, vt) ==
    RoundUp(ElemSize(kt) + ElemSize(vt),
            IF ElemAlign(kt) > ElemAlign(vt) THEN ElemAlign(kt) ELSE ElemAlign(vt))

\* the width a lead byte of UTF-8 announces (0 for a byte that is no lead byte)
Utf8Width(b) ==
    IF b < 128 THEN 1
    ELSE IF b >= 194 /\ b < 224 THEN 2
    ELSE IF b >= 224 /\ b < 240 THEN 3
    ELSE IF b >= 240 /\ b < 245 THEN 4
    ELSE 0
\* the second byte s is one the lead byte b admits: a continuation byte that
\* makes no overlong form, no surrogate and nothing above U+10FFFF
Utf8SecondOk(b, s) ==
    CASE b = 224 -> s >= 160 /\ s < 192
      [] b = 237 -> s >= 128 /\ s < 160
      [] b = 240 -> s >= 144 /\ s < 192
      [] b = 244 -> s >= 128 /\ s < 144
      [] OTHER -> s >= 128 /\ s < 192
\* String::from_utf8 accepts bytes[from..]: every byte is an ASCII byte, a lead
\* byte followed by the continuation bytes it announces, or a continuation byte
\* that a lead byte at most three places before it announces
ValidUtf8(bytes, from) ==
    \A i \in from..Len(bytes) :
        LET b == bytes[i]
        IN  \/ b < 128
            \/ /\ Utf8Width(b) >= 2 /\ i + Utf8Width(b) - 1 <= Len(bytes)
               /\ Utf8SecondOk(b, bytes[i + 1])
               /\ \A j \in (i + 2)..(i + Utf8Width(b) - 1) : bytes[j] >= 128 /\ bytes[j] < 192
            \/ /\ b >= 128 /\ b < 192
               /\ \E d \in 1..3 :
                     /\ i - d >= from /\ Utf8Width(bytes[i - d]) > d
                     /\ \A e \in 1..(d - 1) : bytes[i - e] >= 128 /\ bytes[i - e] < 192

RECURSIVE SizeT(_, _)
RECURSIVE SizeVecLoop(_, _, _, _, _)
\* the loop of Vec<T>::size
SizeVecLoop(t, v, i, dynamic_counter, var_int_size) ==
    IF i > Len(v) THEN Dynamic(dynamic_counter)
    ELSE LET x == SizeT(t, v[i])
         IN  IF x.k = "Constant"
             THEN Dynamic((x.n * Len(v)) + var_int_size)
             ELSE SizeVecLoop(t, v, i + 1, dynamic_counter + x.n, var_int_size)

RECURSIVE SizeMapLoop(_, _, _, _, _)
\* the loop of HashMap<K, V>::size
SizeMapLoop(kt, vt, v, i, size) ==
    IF i > Len(v) THEN size
    ELSE SizeMapLoop(kt, vt, v, i + 1,
                     SizeAdd(SizeAdd(size, SizeT(kt, v[i][1])), SizeT(vt, v[i][2])))

RECURSIVE SizeArrayLoop(_, _, _, _, _)
\* the loop of <[T; N]>::size
SizeArrayLoop(t, n, v, i, dynamic_counter) ==
    IF i > Len(v) THEN Dynamic(dynamic_counter)
    ELSE LET x == SizeT(t, v[i])
         IN  IF x.k = "Constant"
             THEN Constant(x.n * n)
             ELSE SizeArrayLoop(t, n, v, i + 1, dynamic_counter + x.n)

\* <[T; N]>::size
SizeArray(t, n, v) == SizeArrayLoop(t, n, v, 1, 0)

\* Maybe<T>::size
SizeMaybe(t, v) == IF v.some THEN SizeAdd(Constant(1), SizeT(t, v.v)) ELSE Constant(1)

\* Vec<T>::size
SizeVec(t, v) ==
    LET var_int_size == SizeVarNum(ToBits(Len(v), 32))
    IN  SizeVecLoop(t, v, 1, var_int_size, var_int_size)

\* String::size
SizeString(v) == Dynamic(Len(v) + SizeVarNum(ToBits(Len(v), 32)))

\* PacketComponent::size of delegate t on value v
SizeT(t, v) ==
    CASE t.d = "u8" -> Constant(1)
      [] t.d = "i32" -> Constant(4)
      [] t.d = "VarInt" -> Dynamic(SizeVarNum(ToBits(v, 32)))
      [] t.d \in {"String", "LimitedString"} -> SizeString(v)
      [] t.d = "Maybe" -> SizeMaybe(t.t, v)
      [] t.d \in {"Vec", "LimitedVec"} -> SizeVec(t.t, v)
      [] t.d = "Array" -> SizeArray(t.t, t.n, v)
      [] t.d \in {"HashMap", "LimitedMap"} ->
            SizeMapLoop(t.kt, t.vt, v, 1,
                        SizeAdd(Constant(0), SizeT(VarInt, Len(v))))


(* Encoding.  The result is [res, out]: the outcome and the bytes written to  *)
(* the writer, which on a failure are the bytes written before it.            *)
RECURSIVE EncodeT(_, _)
RECURSIVE EncodeItems(_, _, _, _)
\* `for item in component_ref { T::encode(item, context, write).await?; }`
EncodeItems(t, v, i, out) ==
    IF i > Len(v) THEN [res |-> Ok, out |-> out]
    ELSE LET r == EncodeT(t, v[i])
         IN  IF r.res # Ok THEN [res |-> r.res, out |-> out \o r.out]
             ELSE EncodeItems(t, v, i + 1, out \o r.out)

RECURSIVE EncodePairs(_, _, _, _, _)
\* `for (k, v) in component_ref { K::encode(..)?; V::encode(..)?; }`
EncodePairs(kt, vt, v, i, out) ==
    IF i > Len(v) THEN [res |-> Ok, out |-> out]
    ELSE LET rk == EncodeT(kt, v[i][1])
             rv == EncodeT(vt, v[i][2])
         IN  IF rk.res # Ok THEN [res |-> rk.res, out |-> out \o rk.out]
             ELSE IF rv.res # Ok THEN [res |-> rv.res, out |-> out \o rk.out \o rv.out]
             ELSE EncodePairs(kt, vt, v, i + 1, out \o rk.out \o rv.out)

\* write_var_int(len as i32) on an always-ready writer
EncodeLen(n) == WriteVarNum(ToBits(n, 32)).out

\* Vec<T>::encode
EncodeVec(t, v) == EncodeItems(t, v, 1, EncodeLen(Len(v)))

\* <[T; N]>::encode
EncodeArray(t, v) == EncodeItems(t, v, 1, <<>>)

\* HashMap<K, V>::encode
EncodeMap(kt, vt, v) == EncodePairs(kt, vt, v, 1, EncodeLen(Len(v)))

\* <String as PacketComponent>::encode
EncodeString(v) ==
    LET len == Len(v)
    IN  IF len > STRING_DEFAULT_CAP
        THEN [res |-> LimitExceeded(STRING_DEFAULT_CAP, len, "encoding string"), out |-> <<>>]
        ELSE [res |-> Ok, out |-> EncodeLen(len) \o v]

\* Maybe<T>::encode
EncodeMaybe(t, v) ==
    IF v.some
    THEN LET r == EncodeT(t, v.v) IN [res |-> r.res, out |-> <<1>> \o r.out]
    ELSE [res |-> Ok, out |-> <<0>>]

\* LimitedVec<T, N>::encode
EncodeLimitedVec(t, n, v) ==
    LET len == Len(v)
        lim == n
    IN  IF len > lim
        THEN [res |-> LimitExceeded(lim, len, "encoding vec"), out |-> <<>>]
        ELSE EncodeVec(t, v)

\* LimitedMap<K, V, N>::encode
EncodeLimitedMap(kt, vt, n, v) ==
    LET len == Len(v)
        lim == n
    IN  IF len > lim
        THEN [res |-> LimitExceeded(lim, len, "encoding map"), out |-> <<>>]
        ELSE EncodeMap(kt, vt, v)

\* LimitedString<N>::encode
EncodeLimitedString(n, v) ==
    LET len == Len(v)
    IN  IF len > n
        THEN [res |-> LimitExceeded(n, len, "encoding string"), out |-> <<>>]
        ELSE EncodeString(v)

\* PacketComponent::encode of delegate t on value v
EncodeT(t, v) ==
    CASE t.d = "u8" -> [res |-> Ok, out |-> ToBE(ToBits(v, 8))]
      [] t.d = "i32" -> [res |-> Ok, out |-> ToBE(ToBits(v, 32))]
      [] t.d = "VarInt" -> [res |-> Ok, out |-> WriteVarNum(ToBits(v, 32)).out]
      [] t.d = "String" -> EncodeString(v)
      [] t.d = "LimitedString" -> EncodeLimitedString(t.n, v)
      [] t.d = "Maybe" -> EncodeMaybe(t.t, v)
      [] t.d = "Vec" -> EncodeVec(t.t, v)
      [] t.d = "LimitedVec" -> EncodeLimitedVec(t.t, t.n, v)
      [] t.d = "Array" -> EncodeArray(t.t, v)
      [] t.d = "HashMap" -> EncodeMap(t.kt, t.vt, v)
      [] t.d = "LimitedMap" -> EncodeLimitedMap(t.kt, t.vt, t.n, v)

(* Decoding.  The result is [res, val, pos, alloc, elems]: the outcome, the   *)
(* value (meaningful when res = Ok), the cursor position afterwards, the      *)
(* capacities requested from the allocator in order (usize words), and the    *)
(* number of element decodes that were started.                               *)
Decoded(val, pos, alloc, elems) ==
    [res |-> Ok, val |-> val, pos |-> pos, alloc |-> alloc, elems |-> elems]
Failed(err, pos, alloc, elems) ==
    [res |-> err, val |-> <<>>, pos |-> pos, alloc |-> alloc, elems |-> elems]

\* a fixed-width big-endian number of n bytes, signed when sgn
DecodeFixed(stream, pos, n, sgn) ==
    LET r == ReadExact(stream, pos, n)
    IN  IF r.res # Ok THEN Failed(r.res, r.pos, <<>>, 0)
        ELSE Decoded(IF sgn THEN ToI32(FromBE(r.bytes)) ELSE ToNat(FromBE(r.bytes)),
                     r.pos, <<>>, 0)

\* read.read_var_int().await on a Cursor
DecodeVarInt(stream, pos) ==
    LET r == ReadVarNum(32, stream, pos)
    IN  IF r.res = "Ok" THEN Decoded(ToI32(r.me.value), r.pos, <<>>, 0)
        ELSE Failed(Err(r.res), r.pos, <<>>, 0)

\* `vec![0; len as usize]; read_exact; String::from_utf8` of the string decoders
DecodeStringBody(stream, pos, len) ==
    LET cap == ToBits(len, 64)
    IN  IF CapacityOverflow(cap, 1) THEN Failed(Err("Panic"), pos, <<cap>>, 0)
        ELSE LET r == ReadExact(stream, pos, len)
             IN  IF r.res # Ok THEN Failed(r.res, r.pos, <<cap>>, 0)
                 ELSE IF ~ValidUtf8(r.bytes, 1) THEN Failed(Err("Utf8Error"), r.pos, <<cap>>, 0)
                 ELSE Decoded(r.bytes, r.pos, <<cap>>, 0)

\* <String as PacketComponent>::decode
DecodeString(stream, pos) ==
    LET l == DecodeVarInt(stream, pos)
    IN  IF l.res # Ok THEN l
        ELSE IF l.val > STRING_DEFAULT_CAP
        THEN Failed(LimitExceeded(STRING_DEFAULT_CAP, l.val, "decoding string"), l.pos, <<>>, 0)
        ELSE DecodeStringBody(stream, l.pos, l.val)

\* LimitedString<N>::decode refusing a declared length of N itself
DecodeLimitedString_Inclusive(n, stream, pos) ==
    LET l == DecodeVarInt(stream, pos)
    IN  IF l.res # Ok THEN l
        ELSE IF l.val >= n
        THEN Failed(LimitExceeded(n, l.val, "decoding string"), l.pos, <<>>, 0)
        ELSE DecodeStringBody(stream, l.pos, l.val)
\* LimitedString<N>::decode
DecodeLimitedString(n, stream, pos) ==
    LET l == DecodeVarInt(stream, pos)
    IN  IF l.res # Ok THEN l
        ELSE IF l.val > n
        THEN Failed(LimitExceeded(n, l.val, "decoding string"), l.pos, <<>>, 0)
        ELSE DecodeStringBody(stream, l.pos, l.val)

RECURSIVE DecodeT(_, _, _, _)
RECURSIVE DecodeItems(_, _, _, _, _, _, _, _)
RECURSIVE DecodeItems_Partial(_, _, _, _, _, _, _, _)
\* mutant: an element that fails ends the loop and the elements before it are
\* returned
DecodeItems_Partial(t, stream, pos, left, vec, alloc, elems, host) ==
    IF left <= 0 THEN Decoded(vec, pos, alloc, elems)
    ELSE LET r == DecodeT(t, stream, pos, host)
         IN  IF r.res # Ok THEN Decoded(vec, r.pos, alloc \o r.alloc, elems + 1)
             ELSE DecodeItems_Partial(t, stream, r.pos, left - 1, Append(vec, r.val),
                                      alloc \o r.alloc, elems + 1, host)
\* `for _ in 0..len { vec.push(T::decode(context, read).await?); }`
DecodeItems(t, stream, pos, left, vec, alloc, elems, host) ==
    IF left <= 0 THEN Decoded(vec, pos, alloc, elems)
    ELSE LET r == DecodeT(t, stream, pos, host)
         IN  IF r.res # Ok THEN Failed(r.res, r.pos, alloc \o r.alloc, elems + 1)
             ELSE DecodeItems(t, stream, r.pos, left - 1, Append(vec, r.val),
                              alloc \o r.alloc, elems + 1, host)

\* mutant: a repeated key keeps its first value
MapInsert_KeepFirst(map, k, v) ==
    IF \E i \in 1..Len(map) : map[i][1] = k THEN map ELSE Append(map, <<k, v>>)
\* HashMap::insert on the pairs in insertion order: a repeated key keeps its
\* place and takes the new value
MapInsert(map, k, v) ==
    IF \E i \in 1..Len(map) : map[i][1] = k
    THEN SubSeq([i \in 1..Len(map) |-> IF map[i][1] = k THEN <<k, v>> ELSE map[i]], 1, Len(map))
    ELSE Append(map, <<k, v>>)

RECURSIVE DecodePairs(_, _, _, _, _, _, _, _, _)
\* `for _ in 0..len { map.insert(K::decode(..)?, V::decode(..)?); }`
DecodePairs(kt, vt, stream, pos, left, map, alloc, elems, host) ==
    IF left <= 0 THEN Decoded(map, pos, alloc, elems)
    ELSE LET rk == DecodeT(kt, stream, pos, host)
         IN  IF rk.res # Ok THEN Failed(rk.res, rk.pos, alloc \o rk.alloc, elems + 1)
             ELSE LET rv == DecodeT(vt, stream, rk.pos, host)
                  IN  IF rv.res # Ok
                      THEN Failed(rv.res, rv.pos, alloc \o rk.alloc \o rv.alloc, elems + 2)
                      ELSE DecodePairs(kt, vt, stream, rv.pos, left - 1,
                                       MapInsert(map, rk.val, rv.val),
                                       alloc \o rk.alloc \o rv.alloc, elems + 2, host)

\* `Vec::with_capacity(len as usize)` followed by the element loop
DecodeVecBody(t, stream, pos, len, host) ==
    LET cap == ToBits(len, 64)
    IN  IF CapacityOverflow(cap, ElemSize(t)) THEN Failed(Err("Panic"), pos, <<cap>>, 0)
        ELSE IF LargeRequest(len, ElemSize(t)) /\ ~host
        THEN Failed(Err("AllocError"), pos, <<cap>>, 0)
        ELSE DecodeItems(t, stream, pos, len, <<>>, <<cap>>, 0, host)

\* `HashMap::with_capacity(len as usize)` followed by the pair loop
DecodeMapBody(kt, vt, stream, pos, len, host) ==
    LET cap == ToBits(len, 64)
    IN  IF TableOverflow(cap) THEN Failed(Err("Panic"), pos, <<cap>>, 0)
        ELSE IF LargeTable(len, PairSize(kt, vt)) /\ ~host
        THEN Failed(Err("AllocError"), pos, <<cap>>, 0)
        ELSE DecodePairs(kt, vt, stream, pos, len, <<>>, <<cap>>, 0, host)

\* <[T; N]>::decode: N element decodes into an array that is not allocated
DecodeArray(t, n, stream, pos, host) == DecodeItems(t, stream, pos, n, <<>>, <<>>, 0, host)

\* Vec<T>::decode
DecodeVec(t, stream, pos, host) ==
    LET l == DecodeVarInt(stream, pos)
    IN  IF l.res # Ok THEN l ELSE DecodeVecBody(t, stream, l.pos, l.val, host)

\* HashMap<K, V>::decode
DecodeMap(kt, vt, stream, pos, host) ==
    LET l == DecodeVarInt(stream, pos)
    IN  IF l.res # Ok THEN l ELSE DecodeMapBody(kt, vt, stream, l.pos, l.val, host)

\* mutant: the limit is checked after the elements have been decoded
DecodeLimitedVec_Late(t, n, stream, pos, host) ==
    LET r == DecodeVec(t, stream, pos, host)
    IN  IF r.res = Ok /\ Len(r.val) > n
        THEN Failed(LimitExceeded(n, Len(r.val), "decoding vec"), r.pos, r.alloc, r.elems)
        ELSE r
\* LimitedVec<T, N>::decode
DecodeLimitedVec(t, n, stream, pos, host) ==
    LET l == DecodeVarInt(stream, pos)
        lim == n
    IN  IF l.res # Ok THEN l
        ELSE IF l.val > lim
        THEN Failed(LimitExceeded(lim, l.val, "decoding vec"), l.pos, <<>>, 0)
        ELSE DecodeVecBody(t, stream, l.pos, l.val, host)

\* LimitedMap<K, V, N>::decode
DecodeLimitedMap(kt, vt, n, stream, pos, host) ==
    LET l == DecodeVarInt(stream, pos)
        lim == n
    IN  IF l.res # Ok THEN l
        ELSE IF l.val > lim
        THEN Failed(LimitExceeded(lim, l.val, "decoding map"), l.pos, <<>>, 0)
        ELSE DecodeMapBody(kt, vt, stream, l.pos, l.val, host)

\* mutant: only the presence byte 1 means present
DecodeMaybe_OnlyOne(t, stream, pos, host) ==
    LET b == DecodeFixed(stream, pos, 1, FALSE)
    IN  IF b.res # Ok THEN b
        ELSE IF b.val # 1 THEN Decoded(None, b.pos, <<>>, 0)
        ELSE LET r == DecodeT(t, stream, b.pos, host)
             IN  IF r.res # Ok THEN Failed(r.res, r.pos, r.alloc, r.elems + 1)
                 ELSE Decoded(Some(r.val), r.pos, r.alloc, r.elems + 1)
\* Maybe<T>::decode
DecodeMaybe(t, stream, pos, host) ==
    LET b == DecodeFixed(stream, pos, 1, FALSE)
    IN  IF b.res # Ok THEN b
        ELSE IF b.val = 0 THEN Decoded(None, b.pos, <<>>, 0)
        ELSE LET r == DecodeT(t, stream, b.pos, host)
             IN  IF r.res # Ok THEN Failed(r.res, r.pos, r.alloc, r.elems + 1)
                 ELSE Decoded(Some(r.val), r.pos, r.alloc, r.elems + 1)

\* PacketComponent::decode of delegate t on the stream at pos
DecodeT(t, stream, pos, host) ==
    CASE t.d = "u8" -> DecodeFixed(stream, pos, 1, FALSE)
      [] t.d = "i32" -> DecodeFixed(stream, pos, 4, TRUE)
      [] t.d = "VarInt" -> DecodeVarInt(stream, pos)
      [] t.d = "String" -> DecodeString(stream, pos)
      [] t.d = "LimitedString" -> DecodeLimitedString(t.n, stream, pos)
      [] t.d = "Maybe" -> DecodeMaybe(t.t, stream, pos, host)
      [] t.d = "Vec" -> DecodeVec(t.t, stream, pos, host)
      [] t.d = "LimitedVec" -> DecodeLimitedVec(t.t, t.n, stream, pos, host)
      [] t.d = "Array" -> DecodeArray(t.t, t.n, stream, pos, host)
      [] t.d = "HashMap" -> DecodeMap(t.kt, t.vt, stream, pos, host)
      [] t.d = "LimitedMap" -> DecodeLimitedMap(t.kt, t.vt, t.n, stream, pos, host)


(***************************************************************************)
(* The tree codec (nbt.rs).  A Tag is <<kind, payload>>, the payload a     *)
(* number (Byte, Short, Int), a 64-bit word (Long), the bits of the float  *)
(* as a word (Float, Double), a sequence of bytes (ByteArray), of code     *)
(* points (String), of numbers or words (IntArray, LongArray),             *)
(* [kind, items] (List) or a sequence of <<name, Tag>> (Compound).         *)
(***************************************************************************)
TagEnd == <<0, 0>>
TagByte(x) == <<1, x>>
TagShort(x) == <<2, x>>
TagInt(x) == <<3, x>>
TagLong(x) == <<4, x>>
TagFloat(x) == <<5, x>>
TagDouble(x) == <<6, x>>
TagByteArray(x) == <<7, x>>
TagString(x) == <<8, x>>
TagList(kind, items) == <<9, [kind |-> kind, items |-> items]>>
CompoundTag(map) == <<10, map>>
TagIntArray(x) == <<11, x>>
TagLongArray(x) == <<12, x>>

\* Tag::get_tag_bit
get_tag_bit(tag) == tag[1]

\* the depth above which a List or Compound is refused
DepthLimit == 512

\* `depth > 512`
DepthExceeded_Inclusive(depth) == depth >= DepthLimit
DepthExceeded(depth) == depth > DepthLimit

\* f32 / f64 is_nan on the bits: exponent all ones, mantissa not zero
IsNaN(bits) ==
    LET w == Len(bits)
        m == IF w = 32 THEN 23 ELSE 52
    IN  /\ \A i \in (m + 1)..(w - 1) : bits[i] = 1
        /\ \E i \in 1..m : bits[i] = 1

\* f32 / f64 PartialEq on the bits: a NaN equals nothing, the two zeros are equal
FloatEq(a, b) ==
    /\ ~IsNaN(a) /\ ~IsNaN(b)
    /\ \/ a = b
       \/ \A i \in 1..(Len(a) - 1) : a[i] = 0 /\ b[i] = 0

RECURSIVE TagEq(_, _)
\* #[derive(PartialEq)] of Tag
TagEq(a, b) ==
    /\ a[1] = b[1]
    /\ CASE a[1] \in {5, 6} -> FloatEq(a[2], b[2])
         [] a[1] = 9 ->
              /\ a[2].kind = b[2].kind
              /\ Len(a[2].items) = Len(b[2].items)
              /\ \A i \in 1..Len(a[2].items) : TagEq(a[2].items[i], b[2].items[i])
         [] a[1] = 10 ->
              /\ Len(a[2]) = Len(b[2])
              /\ \A i \in 1..Len(a[2]) : a[2][i][1] = b[2][i][1] /\ TagEq(a[2][i][2], b[2][i][2])
         [] OTHER -> a[2] = b[2]

RECURSIVE Flatten(_, _, _)
\* the concatenation of the sequences f[lo..hi], halving the range
Flatten(f, lo, hi) ==
    IF lo > hi THEN <<>>
    ELSE IF lo = hi THEN f[lo]
    ELSE LET mid == (lo + hi) \div 2
         IN  Flatten(f, lo, mid) \o Flatten(f, mid + 1, hi)

\* the three-byte form of a code unit 0x800..0xFFFF
ThreeBytes(c) == <<224 + (c \div 4096), 128 + ((c \div 64) % 64), 128 + (c % 64)>>

\* the bytes of one char in Java's modified CESU-8: U+0000 is C0 80, a char
\* above U+FFFF is a surrogate pair of two three-byte forms
CesuChar(c) ==
    IF c = 0 THEN <<192, 128>>
    ELSE IF c < 128 THEN <<c>>
    ELSE IF c < 2048 THEN <<192 + (c \div 64), 128 + (c % 64)>>
    ELSE IF c < 65536 THEN ThreeBytes(c)
    ELSE ThreeBytes(55296 + ((c - 65536) \div 1024)) \o ThreeBytes(56320 + ((c - 65536) % 1024))

\* cesu8::to_java_cesu8
to_java_cesu8(s) ==
    LET n == Len(s)
    IN  Flatten(SubSeq([i \in 1..n |-> CesuChar(s[i])], 1, n), 1, n)

\* char::len_utf8
LenUtf8(c) == IF c < 128 THEN 1 ELSE IF c < 2048 THEN 2 ELSE IF c < 65536 THEN 3 ELSE 4


IsCont(bytes, i) == i <= Len(bytes) /\ bytes[i] >= 128 /\ bytes[i] < 192

RECURSIVE DecodeChars(_, _, _, _)
\* the chars of bytes[i..]: as UTF-8 when ~java, as Java CESU-8 when java (C0 80
\* is U+0000 and a byte 0 is refused, a surrogate pair is one char, a four-byte
\* form is refused)
DecodeChars(bytes, i, java, out) ==
    IF i > Len(bytes) THEN [ok |-> TRUE, s |-> out]
    ELSE LET b == bytes[i]
         IN  IF java /\ b = 0 THEN [ok |-> FALSE, s |-> <<>>]
             ELSE IF b < 128 THEN DecodeChars(bytes, i + 1, java, Append(out, b))
             ELSE IF java /\ b = 192 /\ IsCont(bytes, i + 1) /\ bytes[i + 1] = 128
             THEN DecodeChars(bytes, i + 2, java, Append(out, 0))
             ELSE IF b >= 194 /\ b < 224 /\ IsCont(bytes, i + 1)
             THEN DecodeChars(bytes, i + 2, java,
                              Append(out, (b - 192) * 64 + (bytes[i + 1] - 128)))
             ELSE IF b >= 224 /\ b < 240 /\ IsCont(bytes, i + 1) /\ IsCont(bytes, i + 2)
             THEN LET c == (b - 224) * 4096 + (bytes[i + 1] - 128) * 64 + (bytes[i + 2] - 128)
                  IN  IF c < 2048 THEN [ok |-> FALSE, s |-> <<>>]
                      ELSE IF c < 55296 \/ c >= 57344
                      THEN DecodeChars(bytes, i + 3, java, Append(out, c))
                      ELSE IF java /\ c < 56320 /\ i + 5 <= Len(bytes) /\ bytes[i + 3] = 237
                              /\ bytes[i + 4] >= 176 /\ bytes[i + 4] < 192 /\ IsCont(bytes, i + 5)
                      THEN DecodeChars(bytes, i + 6, java,
                               Append(out, 65536 + (c - 55296) * 1024
                                           + (bytes[i + 4] - 176) * 64 + (bytes[i + 5] - 128)))
                      ELSE [ok |-> FALSE, s |-> <<>>]
             ELSE IF ~java /\ b >= 240 /\ b < 245 /\ IsCont(bytes, i + 1)
                     /\ IsCont(bytes, i + 2) /\ IsCont(bytes, i + 3)
             THEN LET c == (b - 240) * 262144 + (bytes[i + 1] - 128) * 4096
                           + (bytes[i + 2] - 128) * 64 + (bytes[i + 3] - 128)
                  IN  IF c < 65536 \/ c > 1114111 THEN [ok |-> FALSE, s |-> <<>>]
                      ELSE DecodeChars(bytes, i + 4, java, Append(out, c))
             ELSE [ok |-> FALSE, s |-> <<>>]

\* cesu8::from_java_cesu8: the bytes as they are when they are valid UTF-8, their
\* CESU-8 decoding otherwise
from_java_cesu8(bytes) ==
    LET u == DecodeChars(bytes, 1, FALSE, <<>>)
    IN  IF u.ok THEN u ELSE DecodeChars(bytes, 1, TRUE, <<>>)

\* write_u16 / write_i32 of a number: its big-endian bytes
U16BE(n) == ToBE(ToBits(n, 16))
I32BE(n) == ToBE(ToBits(n, 32))

\* write_string: the length of the CESU-8 form `as u16`, then the form
write_string(reference) ==
    LET cesu_8 == to_java_cesu8(reference)
    IN  U16BE(Len(cesu_8)) \o cesu_8

\* size_string
size_string(reference) == 2 + Len(to_java_cesu8(reference))

RECURSIVE write_tag(_)
\* write_tag: the bytes written for a Tag
write_tag(tag) ==
    LET reference == tag[2]
    IN  CASE tag[1] = 0 -> <<>>
          [] tag[1] = 1 -> ToBE(ToBits(reference, 8))
          [] tag[1] = 2 -> U16BE(reference)
          [] tag[1] = 3 -> I32BE(reference)
          [] tag[1] \in {4, 5, 6} -> ToBE(reference)
          [] tag[1] = 7 -> I32BE(Len(reference)) \o reference
          [] tag[1] = 8 -> write_string(reference)
          [] tag[1] = 9 ->
               LET n == Len(reference.items)
               IN  ToBE(ToBits(reference.kind, 8)) \o I32BE(n)
                   \o Flatten(SubSeq([i \in 1..n |-> write_tag(reference.items[i])], 1, n), 1, n)
          [] tag[1] = 10 ->
               LET n == Len(reference)
               IN  IF n = 0 THEN <<0>>
                   ELSE Flatten(SubSeq([i \in 1..n |->
                                   <<get_tag_bit(reference[i][2])>>
                                   \o write_string(reference[i][1])
                                   \o write_tag(reference[i][2])], 1, n), 1, n) \o <<0>>
          [] tag[1] = 11 ->
               LET n == Len(reference)
               IN  I32BE(n) \o Flatten(SubSeq([i \in 1..n |-> I32BE(reference[i])], 1, n), 1, n)
          [] tag[1] = 12 ->
               LET n == Len(reference)
               IN  I32BE(n) \o Flatten(SubSeq([i \in 1..n |-> ToBE(reference[i])], 1, n), 1, n)

RECURSIVE size_tag(_)
RECURSIVE SizeItems(_, _)
\* `for item in &reference.1 { size += size_tag(item)?; }`
SizeItems(items, i) ==
    IF i > Len(items) THEN 0 ELSE size_tag(items[i]) + SizeItems(items, i + 1)

RECURSIVE SizeEntries(_, _)
\* `for (key, value) in reference { size += size_string(key)? + 1; size += size_tag(value)?; }`
SizeEntries(map, i) ==
    IF i > Len(map) THEN 0
    ELSE size_string(map[i][1]) + 1 + size_tag(map[i][2]) + SizeEntries(map, i + 1)

\* size_tag
size_tag(tag) ==
    LET reference == tag[2]
    IN  CASE tag[1] = 0 -> 0
          [] tag[1] = 1 -> 1
          [] tag[1] = 2 -> 2
          [] tag[1] \in {3, 5} -> 4
          [] tag[1] \in {4, 6} -> 8
          [] tag[1] = 7 -> 4 + Len(reference)
          [] tag[1] = 8 -> size_string(reference)
          [] tag[1] = 9 -> 5 + SizeItems(reference.items, 1)
          [] tag[1] = 10 -> IF Len(reference) = 0 THEN 1 ELSE SizeEntries(reference, 1) + 1
          [] tag[1] = 11 -> 4 + (4 * Len(reference))
          [] tag[1] = 12 -> 4 + (8 * Len(reference))

(* The accountant.  limit and current are u64 words. *)
U64(n) == ToBits(n, 64)
IsZero(word) == \A i \in 1..Len(word) : word[i] = 0

\* NbtError::TagTooBig(expected, received)
TagTooBig(expected, received) ==
    [e |-> "TagTooBig", expected |-> expected, received |-> received]

\* the carry into bit i of a + b: some lower bit generates a carry that every bit
\* between propagates
CarryInto(a, b, i) ==
    \E j \in 1..(i - 1) :
        a[j] = 1 /\ b[j] = 1 /\ \A k \in (j + 1)..(i - 1) : a[k] = 1 \/ b[k] = 1

\* u64::checked_add
checked_add(a, b) ==
    LET w == Len(a)
    IN  IF CarryInto(a, b, w + 1) THEN None
        ELSE Some(Word([i \in 1..w |->
                          (a[i] + b[i] + (IF CarryInto(a, b, i) THEN 1 ELSE 0)) % 2], w))

\* a value named once and used by Op
Bind(v, Op(_)) == Op(v)

\* the outcome of account_bytes once next = current + bytes is known
Accounted_Inclusive(me, next) ==
    IF ~next.some THEN [res |-> Err("AccounterOverflow"), me |-> me]
    ELSE IF ~WordLess(next.v, me.limit) THEN [res |-> TagTooBig(me.limit, next.v), me |-> me]
    ELSE [res |-> Ok, me |-> [me EXCEPT !.current = next.v]]
\* mutant: a debit that leaves more than 100 bytes of the limit unused is refused
Accounted_Band(me, next) ==
    IF ~next.some THEN [res |-> Err("AccounterOverflow"), me |-> me]
    ELSE IF WordLess(me.limit, next.v) \/ WordLess(checked_add(next.v, U64(100)).v, me.limit)
    THEN [res |-> TagTooBig(me.limit, next.v), me |-> me]
    ELSE [res |-> Ok, me |-> [me EXCEPT !.current = next.v]]
Accounted(me, next) ==
    IF ~next.some THEN [res |-> Err("AccounterOverflow"), me |-> me]
    ELSE IF WordLess(me.limit, next.v) THEN [res |-> TagTooBig(me.limit, next.v), me |-> me]
    ELSE [res |-> Ok, me |-> [me EXCEPT !.current = next.v]]

\* account_bytes without the `if self.limit == 0` bypass
account_bytes_NoBypass(me, bytes) == Accounted(me, checked_add(me.current, bytes))
\* NbtAccounter::account_bytes on the accountant me: the outcome and the accountant
account_bytes(me, bytes) ==
    IF IsZero(me.limit) THEN [res |-> Ok, me |-> me]
    ELSE Accounted(me, checked_add(me.current, bytes))

(* A decode in progress carries io = [pos, acc, log]: the cursor position, the *)
(* accountant, and the debits made during the current step, each as            *)
(* [before, bytes, res, after].                                                *)
Account(io, bytes) ==
    Bind(account_bytes(io.acc, bytes), LAMBDA r :
        [res |-> r.res,
         io |-> [io EXCEPT !.acc = r.me,
                           !.log = Append(@, [before |-> io.acc.current, bytes |-> bytes,
                                              res |-> r.res, after |-> r.me.current])]])

\* read_exact of n bytes through io
ReadN(stream, io, n) ==
    Bind(ReadExact(stream, io.pos, n), LAMBDA r :
        [res |-> r.res, bytes |-> r.bytes, io |-> [io EXCEPT !.pos = r.pos]])

\* the outcome of load_tag or of one of its steps
Loaded(val, io) == [res |-> Ok, val |-> val, io |-> io]
LoadFailed(err, io) == [res |-> err, val |-> TagEnd, io |-> io]

\* the `?` operator on the outcome r of a step: an error is the outcome of the
\* whole load, a success goes on with Op
Try(r, Op(_)) == IF r.res # Ok THEN LoadFailed(r.res, r.io) ELSE Op(r)

\* `accounter.account_bytes(weight)?` followed by a read of n bytes
AccountThenRead(stream, io, weight, n) ==
    Try(Account(io, U64(weight)), LAMBDA a : ReadN(stream, a.io, n))

RECURSIVE StrLen(_, _, _)
\* String::len: the UTF-8 length of the chars lo..hi of s
StrLen(s, lo, hi) ==
    IF lo > hi THEN 0
    ELSE IF lo = hi THEN LenUtf8(s[lo])
    ELSE LET mid == (lo + hi) \div 2
         IN  StrLen(s, lo, mid) + StrLen(s, mid + 1, hi)

\* read_string once the bytes are in: `from_java_cesu8(..)` mapped to
\* Cesu8DecodingError, then the debit of `string.len()`
StringOf(string, io) ==
    IF ~string.ok THEN LoadFailed(Err("Cesu8DecodingError"), io)
    ELSE Try(Account(io, U64(StrLen(string.s, 1, Len(string.s)))),
             LAMBDA a : Loaded(string.s, a.io))

\* read_string
read_string(stream, io) ==
    Try(ReadN(stream, io, 2), LAMBDA l :
    Try(ReadN(stream, l.io, ToNat(FromBE(l.bytes))), LAMBDA b :
        StringOf(from_java_cesu8(b.bytes), b.io)))

\* `(4 * len) as u64` / `(8 * len) as u64`: the i32 product by 2^shift widened with
\* its sign.  A product outside i32 panics when the build checks overflow and
\* wraps when it does not.
MulLen(shift, len, overflow_checks, io) ==
    IF len > I32Max \div (2 ^ shift) \/ len < I32Min \div (2 ^ shift)
    THEN IF overflow_checks THEN [res |-> Err("Panic"), word |-> <<>>, io |-> io]
         ELSE [res |-> Ok, word |-> ToBits(ToI32(Shl(ToBits(len, 32), shift)), 64), io |-> io]
    ELSE [res |-> Ok, word |-> ToBits((2 ^ shift) * len, 64), io |-> io]

\* `Vec::with_capacity(len as usize)` / `vec![0u8; len as usize]` for elements of
\* elem bytes, then Op.  Whether a large request is served depends on the host
\* (io.host).
WithCapacity(len, elem, io, Op(_)) ==
    IF CapacityOverflow(ToBits(len, 64), elem) THEN LoadFailed(Err("Panic"), io)
    ELSE IF LargeRequest(len, elem) /\ ~io.host THEN LoadFailed(Err("AllocError"), io)
    ELSE Op(io)

\* TagByteArray read
LoadByteArray(stream, io) ==
    Try(AccountThenRead(stream, io, 24, 4), LAMBDA h :
    Bind(ToI32(FromBE(h.bytes)), LAMBDA len :
    Try(Account(h.io, ToBits(len, 64)), LAMBDA a :
    WithCapacity(len, 1, a.io, LAMBDA io1 :
    Try(ReadN(stream, io1, len), LAMBDA b :
        Loaded(TagByteArray(b.bytes), b.io))))))

RECURSIVE ReadNums(_, _, _, _, _)
\* `for _ in 0..len { i_arr.push(reader.read_i32().await?); }` (read_i64 for width 8)
ReadNums(stream, io, left, width, i_arr) ==
    IF left <= 0 THEN Loaded(i_arr, io)
    ELSE Try(ReadN(stream, io, width), LAMBDA r :
             ReadNums(stream, r.io, left - 1, width,
                      Append(i_arr, IF width = 4 THEN ToI32(FromBE(r.bytes))
                                    ELSE FromBE(r.bytes))))

\* TagIntArray read (shift 2) / TagLongArray read (shift 3)
LoadNumArray(stream, io, shift, overflow_checks) ==
    Try(AccountThenRead(stream, io, 24, 4), LAMBDA h :
    Bind(ToI32(FromBE(h.bytes)), LAMBDA len :
    Try(MulLen(shift, len, overflow_checks, h.io), LAMBDA m :
    Try(Account(m.io, m.word), LAMBDA a :
    WithCapacity(len, 2 ^ shift, a.io, LAMBDA io1 :
        ReadNums(stream, io1, len, 2 ^ shift, <<>>))))))

\* the kinds load_tag reads without a nested call
LeafBits == (0..8) \cup {11, 12}

\* load_tag for a leaf kind
LoadLeafTag(stream, bit, io, overflow_checks) ==
    CASE bit = 0 ->
           Try(Account(io, U64(8)), LAMBDA a : Loaded(TagEnd, a.io))
      [] bit = 1 ->
           Try(AccountThenRead(stream, io, 9, 1), LAMBDA r :
               Loaded(TagByte(ToNat(FromBE(r.bytes))), r.io))
      [] bit = 2 ->
           Try(AccountThenRead(stream, io, 10, 2), LAMBDA r :
               Loaded(TagShort(ToNat(FromBE(r.bytes))), r.io))
      [] bit = 3 ->
           Try(AccountThenRead(stream, io, 12, 4), LAMBDA r :
               Loaded(TagInt(ToI32(FromBE(r.bytes))), r.io))
      [] bit = 4 ->
           Try(AccountThenRead(stream, io, 16, 8), LAMBDA r :
               Loaded(TagLong(FromBE(r.bytes)), r.io))
      [] bit = 5 ->
           Try(AccountThenRead(stream, io, 12, 4), LAMBDA r :
               Loaded(TagFloat(FromBE(r.bytes)), r.io))
      [] bit = 6 ->
           Try(AccountThenRead(stream, io, 16, 8), LAMBDA r :
               Loaded(TagDouble(FromBE(r.bytes)), r.io))
      [] bit = 7 -> LoadByteArray(stream, io)
      [] bit = 8 ->
           Try(Account(io, U64(36)), LAMBDA a :
           Try(read_string(stream, a.io), LAMBDA s :
               Loaded(TagString(s.val), s.io)))
      [] bit = 11 ->
           Try(LoadNumArray(stream, io, 2, overflow_checks), LAMBDA r :
               Loaded(TagIntArray(r.val), r.io))
      [] bit = 12 ->
           Try(LoadNumArray(stream, io, 3, overflow_checks), LAMBDA r :
               Loaded(TagLongArray(r.val), r.io))

\* TagList read up to the element loop: the debit, the depth guard, the element
\* kind and count, the debit for the count, the buffer of `length as usize` Tags
\* (size_of::<Tag>() = 40 bytes each)
EnterList(stream, io, depth, overflow_checks) ==
    Try(Account(io, U64(37)), LAMBDA a :
        IF DepthExceeded(depth) THEN LoadFailed(Err("ComplexTag"), a.io)
        ELSE Try(ReadN(stream, a.io, 1), LAMBDA t :
             Try(ReadN(stream, t.io, 4), LAMBDA l :
             Bind(ToI32(FromBE(l.bytes)), LAMBDA length :
             Try(MulLen(2, length, overflow_checks, l.io), LAMBDA m :
             Try(Account(m.io, m.word), LAMBDA c :
             WithCapacity(length, 40, c.io, LAMBDA io1 :
                 Loaded([tag_byte |-> ToNat(FromBE(t.bytes)), length |-> length],
                        io1))))))))

\* mutant: the Compound is entered whatever the depth
EnterCompound_NoGuard(io, depth) ==
    Try(Account(io, U64(48)), LAMBDA a : Loaded(<<>>, a.io))
\* CompoundTag read up to its loop: the debit and the depth guard
EnterCompound(io, depth) ==
    Try(Account(io, U64(48)), LAMBDA a :
        IF DepthExceeded(depth) THEN LoadFailed(Err("ComplexTag"), a.io)
        ELSE Loaded(<<>>, a.io))

\* one turn of the loop of CompoundTag read up to the nested load_tag: the kind
\* byte, and unless it is zero the debit and the name
EnterEntry(stream, io) ==
    Try(ReadN(stream, io, 1), LAMBDA t :
    Bind(ToNat(FromBE(t.bytes)), LAMBDA tag_byte :
        IF tag_byte = 0 THEN Loaded([tag_byte |-> 0, key |-> <<>>], t.io)
        ELSE Try(Account(t.io, U64(28)), LAMBDA a :
             Try(read_string(stream, a.io), LAMBDA key :
                 Loaded([tag_byte |-> tag_byte, key |-> key.val], key.io)))))

RECURSIVE load_tag(_, _, _, _, _)
RECURSIVE ListItems(_, _, _, _, _, _, _)
RECURSIVE CompoundLoop(_, _, _, _, _)
\* TagList read: `for _ in 0..length { v.push(load_tag(reader, tag_byte, depth + 1,
\* accounter).await?); }`
ListItems(stream, tag_byte, left, depth, io, overflow_checks, v) ==
    IF left <= 0 THEN Loaded(v, io)
    ELSE Try(load_tag(stream, tag_byte, depth + 1, io, overflow_checks), LAMBDA r :
             ListItems(stream, tag_byte, left - 1, depth, r.io, overflow_checks,
                       Append(v, r.val)))
\* CompoundTag read: the loop up to the `break` on a zero kind byte
CompoundLoop(stream, depth, io, overflow_checks, map) ==
    Try(EnterEntry(stream, io), LAMBDA n :
        IF n.val.tag_byte = 0 THEN Loaded(map, n.io)
        ELSE Try(load_tag(stream, n.val.tag_byte, depth + 1, n.io, overflow_checks), LAMBDA d :
             Try(Account(d.io, U64(36)), LAMBDA a :
                 CompoundLoop(stream, depth, a.io, overflow_checks,
                              Append(map, <<n.val.key, d.val>>)))))
\* load_tag(reader, bit, depth, accounter) as the recursive function it is
load_tag(stream, bit, depth, io, overflow_checks) ==
    IF bit \in LeafBits THEN LoadLeafTag(stream, bit, io, overflow_checks)
    ELSE IF bit = 9
    THEN Try(EnterList(stream, io, depth, overflow_checks), LAMBDA h :
         Try(ListItems(stream, h.val.tag_byte, h.val.length, depth, h.io, overflow_checks,
                       <<>>), LAMBDA r :
             Loaded(TagList(h.val.tag_byte, r.val), r.io)))
    ELSE IF bit = 10
    THEN Try(EnterCompound(io, depth), LAMBDA h :
         Try(CompoundLoop(stream, depth, h.io, overflow_checks, <<>>), LAMBDA r :
             Loaded(CompoundTag(r.val), r.io)))
    ELSE LoadFailed([e |-> "InvalidTagBit", bit |-> bit], io)


(***************************************************************************)
(* State.  Independent subsystems share the module; each                   *)
(* specification below drives one of them and leaves the others idle.      *)
(***************************************************************************)
VARIABLES
    vcfg,   \* varint run: [w, mode, orig]: width, "roundtrip" or "raw", the value written
    wr,     \* the WriteVarInt future and its sink: [me, res, sink, short]
    rd,     \* the ReadVarInt future and its source: [me, res, stream, pos, suspended]
    cod,    \* a delegate run: [mode, t, v, dt, decl, stream, size, enc, dec], for a
            \* run of two values in one stream [v2, enc2, dec2], and host: whether
            \* the host serves large allocation requests
    nbt,    \* a tree run, described with its actions
    alg     \* a run of size sums: the operands, the build, the sums computed so far

varVars == <<vcfg, wr, rd>>
vars == <<vcfg, wr, rd, cod, nbt, alg>>

(***************************************************************************)
(* Inputs of the varint runs.                                              *)
(***************************************************************************)
IntSamples ==
    {0, 1, 25, 127, 128, 255, 16383, 16384, 55324, 2097151, 2097152,
     268435455, 268435456, I32Max, -1, -128, -8877777, I32Min}

LongSeeds == {0, 1, 127, 128, 25, I32Max, -1, I32Min}
LongShifts == {0, 21, 28, 35, 56, 63}

\* the words of the sample values: i32 as u32, i64 as u64
Words(w) ==
    IF w = 32
    THEN {ToBits(v, 32) : v \in IntSamples}
    ELSE {WordOf(v, 64, s) : v \in LongSeeds, s \in LongShifts}

\* most bytes the decoder of width w reads: ceiling / 7
MaxVarBytes(w) == BitLimit(w) \div 7

RawTails == {<<>>, <<0>>, <<1>>, <<15>>, <<16>>, <<126>>, <<127>>, <<8, 128>>}

\* raw source contents: n continuation bytes followed by a tail
RawStreams(w) ==
    {[i \in 1..n |-> c] \o t :
        n \in 0..(MaxVarBytes(w) + MaxExtra), c \in {128, 255}, t \in RawTails}

\* the streams that end before the last byte of bytes
ProperPrefixes(bytes) == {SubSeq(bytes, 1, k) : k \in 0..(Len(bytes) - 1)}

NoWriter == [me |-> <<>>, res |-> "None", sink |-> <<>>, short |-> FALSE]
NoReader == [me |-> NewReader(32), res |-> "None", stream |-> <<>>, pos |-> 0,
             suspended |-> FALSE]
VarIdle == vcfg = [w |-> 32, mode |-> "idle", orig |-> <<>>] /\ wr = NoWriter /\ rd = NoReader

\* write_var_int(writer, value) / read_var_int(reader): the futures as constructed
VarInit ==
    \E w \in {32, 64} :
        \/ \E word \in Words(w) :
              /\ vcfg = [w |-> w, mode |-> "roundtrip", orig |-> word]
              /\ wr = [me |-> word, res |-> "New", sink |-> <<>>, short |-> FALSE]
              /\ rd = NoReader
        \/ \E s \in RawStreams(w) :
              /\ vcfg = [w |-> w, mode |-> "raw", orig |-> <<>>]
              /\ wr = NoWriter
              /\ rd = [me |-> NewReader(w), res |-> "New", stream |-> s, pos |-> 0,
                       suspended |-> FALSE]
        \/ \E word \in Words(w) :
              \E s \in ProperPrefixes(WriteVarNum(word).out) :
                  /\ vcfg = [w |-> w, mode |-> "truncated", orig |-> word]
                  /\ wr = NoWriter
                  /\ rd = [me |-> NewReader(w), res |-> "New", stream |-> s, pos |-> 0,
                           suspended |-> FALSE]

\* the answers of the sink during one poll: k bytes accepted, then Pending, an
\* I/O error, or a ready answer that accepted nothing followed by Pending
SinkAnswers(k, tail) ==
    [i \in 1..k |-> "Ok1"] \o (IF tail = "Pending" THEN <<>> ELSE <<tail>>)

\* <WriteVarInt as Future>::poll
PollWrite ==
    /\ wr.res \in {"New", "Pending"}
    /\ \E k \in 0..MaxBurst, tail \in {"Pending", "Err", "Ok0"} :
          LET r == WriteVarPoll(wr.me, SinkAnswers(k, tail))
          IN  wr' = [me |-> r.me, res |-> r.res, sink |-> wr.sink \o r.out,
                     short |-> wr.short \/ r.short]
    /\ UNCHANGED <<vcfg, rd, cod, nbt, alg>>

\* the written bytes are handed to a reader at position 0 (Cursor::set_position(0)
\* followed by read_var_int)
StartRead ==
    /\ wr.res = "Ok"
    /\ rd.res = "None"
    /\ rd' = [me |-> NewReader(vcfg.w), res |-> "New", stream |-> wr.sink, pos |-> 0,
              suspended |-> FALSE]
    /\ UNCHANGED <<vcfg, wr, cod, nbt, alg>>

\* <ReadVarInt as Future>::poll
PollRead ==
    /\ rd.res \in {"New", "Pending"}
    /\ \E k \in 0..MaxBurst :
          LET r == ReadVarPoll(rd.me, rd.stream, rd.pos, k)
          IN  rd' = [me |-> r.me, res |-> r.res, stream |-> rd.stream, pos |-> r.pos,
                     suspended |-> rd.suspended \/ r.res = "Pending"]
    /\ UNCHANGED <<vcfg, wr, cod, nbt, alg>>

VarNext == PollWrite \/ StartRead \/ PollRead

(***************************************************************************)
(* Delegate runs: a value is sized, encoded into a Cursor and decoded from *)
(* position 0, as the tests of vec.rs, map.rs and string.rs do, or a raw   *)
(* stream made of a declared length and a body is decoded.                 *)
(***************************************************************************)
\* most elements of a sequence or mapping value
MaxLen == 3
\* the limit N of the size-limited delegates
LimitN == 2

NoSize == [k |-> "None", n |-> 0]
NoEnc == [res |-> Err("None"), out |-> <<>>]
NoDec == Failed(Err("None"), 0, <<>>, 0)
CodIdle ==
    cod = [mode |-> "idle", t |-> U8, v |-> 0, dt |-> U8, decl |-> 0, stream |-> <<>>,
           size |-> NoSize, enc |-> NoEnc, dec |-> NoDec,
                   v2 |-> <<>>, enc2 |-> NoEnc, dec2 |-> NoDec, host |-> TRUE]

SeqsUpTo(S, n) == UNION {[1..k -> S] : k \in 0..n}

ElemTypes == {U8, I32, VarInt, String, Maybe(I32), Maybe(VarInt)}

ElemValues(e) ==
    CASE e.d = "u8" -> {0, 255}
      [] e.d = "i32" -> {10, -1}
      [] e.d = "VarInt" -> {0, 300, -1}
      [] e.d = "String" -> {<<>>, <<97, 98>>, <<195, 169>>}
      [] e.d = "Maybe" -> {None} \cup {Some(x) : x \in IF e.t.d = "i32" THEN {10} ELSE {0, 300}}

MapKeys == {1, 2, 300, -1}
\* mappings from VarInt to u8 in every iteration order
MapValues ==
    {m \in SeqsUpTo(MapKeys \X {7}, MaxLen) : \A i, j \in 1..Len(m) : i # j => m[i][1] # m[j][1]}

CodValueInit ==
    \/ \E e \in ElemTypes :
          \E t \in {Vec(e), LimitedVec(e, LimitN)}, dt \in {Vec(e), LimitedVec(e, LimitN)},
             v \in SeqsUpTo(ElemValues(e), MaxLen) :
              cod = [mode |-> "value", t |-> t, v |-> v, dt |-> dt, decl |-> Len(v),
                     stream |-> <<>>, size |-> NoSize, enc |-> NoEnc, dec |-> NoDec,
                   v2 |-> <<>>, enc2 |-> NoEnc, dec2 |-> NoDec, host |-> TRUE]
    \/ \E t \in {HashMap(VarInt, U8), LimitedMap(VarInt, U8, LimitN)},
          dt \in {HashMap(VarInt, U8), LimitedMap(VarInt, U8, LimitN)}, v \in MapValues :
              cod = [mode |-> "value", t |-> t, v |-> v, dt |-> dt, decl |-> Len(v),
                     stream |-> <<>>, size |-> NoSize, enc |-> NoEnc, dec |-> NoDec,
                   v2 |-> <<>>, enc2 |-> NoEnc, dec2 |-> NoDec, host |-> TRUE]

\* declared lengths a varint prefix can carry
LenSamples ==
    {I32Min, -1, 0, 1, LimitN - 1, LimitN, LimitN + 1, 300, 38347923, 1073741824, I32Max}
RawBodies == {<<>>, <<1, 2, 3, 4, 5, 6, 7, 8>>, <<97, 0, 98, 0, 99, 0, 100, 0>>}
RawDelegates ==
    {LimitedVec(VarInt, LimitN), LimitedVec(U8, LimitN), LimitedMap(VarInt, U8, LimitN),
     LimitedString(LimitN), Vec(U8), String, Vec(VarInt), Vec(String), Vec(Array(U8, 0)),
     LimitedVec(Array(U8, 0), LimitN), HashMap(VarInt, U8),
     Vec(Maybe(Maybe(HashMap(VarInt, U8)))), Vec(Maybe(HashMap(VarInt, U8))),
     HashMap(U8, Maybe(Maybe(HashMap(VarInt, U8))))}

\* a host that refuses large requests is tried on the lengths above 300; elements
\* of no bytes, which a stream of any length holds, are tried on the lengths up
\* to LimitN + 1
ZeroSized(dt) == dt.d \in {"Vec", "LimitedVec"} /\ ElemSize(dt.t) = 0
CodRawInit ==
    \E dt \in RawDelegates, l \in LenSamples, b \in RawBodies, host \in BOOLEAN :
        /\ ~host => l > 300
        /\ ZeroSized(dt) => l <= LimitN + 1
        /\ cod = [mode |-> "raw", t |-> dt, v |-> <<>>, dt |-> dt, decl |-> l,
                  stream |-> EncodeLen(l) \o b, size |-> NoSize, enc |-> NoEnc, dec |-> NoDec,
                   v2 |-> <<>>, enc2 |-> NoEnc, dec2 |-> NoDec, host |-> host]

\* strings of up to MaxLen bytes, some with a two-byte char
StrValues == SeqsUpTo({97, 98}, MaxLen) \cup {<<195, 169>>, <<97, 195, 169>>}
\* a caller-declared cap above the default cap
BigN == STRING_DEFAULT_CAP + 2
\* the string of n bytes 'a'
BigString(n) == SubSeq([i \in 1..n |-> 97], 1, n)
\* lengths around the default cap and around BigN
BigLens == {STRING_DEFAULT_CAP, STRING_DEFAULT_CAP + 1, BigN, BigN + 1}

\* a String sized, encoded and decoded by the string delegates, or a stream that
\* declares a length around the default cap and then ends
CodStringInit ==
    \/ \E t \in {String, LimitedString(LimitN)}, dt \in {String, LimitedString(LimitN)},
          v \in StrValues :
              cod = [mode |-> "value", t |-> t, v |-> v, dt |-> dt, decl |-> Len(v),
                     stream |-> <<>>, size |-> NoSize, enc |-> NoEnc, dec |-> NoDec,
                   v2 |-> <<>>, enc2 |-> NoEnc, dec2 |-> NoDec, host |-> TRUE]
    \/ \E t \in {String, LimitedString(BigN)}, n \in BigLens :
              cod = [mode |-> "value", t |-> t, v |-> BigString(n), dt |-> t, decl |-> n,
                     stream |-> <<>>, size |-> NoSize, enc |-> NoEnc, dec |-> NoDec,
                   v2 |-> <<>>, enc2 |-> NoEnc, dec2 |-> NoDec, host |-> TRUE]
    \/ \E dt \in {String, LimitedString(BigN)}, n \in BigLens :
              cod = [mode |-> "raw", t |-> dt, v |-> <<>>, dt |-> dt, decl |-> n,
                     stream |-> EncodeLen(n), size |-> NoSize, enc |-> NoEnc, dec |-> NoDec,
                   v2 |-> <<>>, enc2 |-> NoEnc, dec2 |-> NoDec, host |-> TRUE]

\* the element delegates of the arrays
ArrayElems == {U8, I32, VarInt, Maybe(I32), Maybe(VarInt)}

\* an array [T; N] of N element values
CodArrayInit ==
    \E e \in ArrayElems, n \in 0..MaxLen :
        \E v \in [1..n -> ElemValues(e)] :
            cod = [mode |-> "value", t |-> Array(e, n), v |-> v, dt |-> Array(e, n),
                   decl |-> n, stream |-> <<>>, size |-> NoSize, enc |-> NoEnc,
                              dec |-> NoDec,
                   v2 |-> <<>>, enc2 |-> NoEnc, dec2 |-> NoDec, host |-> TRUE]

\* the element delegates of the optional values
MaybeElems == {U8, I32, VarInt}
PresenceBytes == {0, 1, 2, 128, 255}
MaybeTails == {<<>>, <<0, 0, 0, 10>>, <<1, 44, 0, 0, 0>>, <<255, 255, 255, 255, 15>>}

\* an Option sized, encoded and decoded by Maybe<T>, or a stream that starts
\* with a presence byte
CodMaybeInit ==
    \/ \E e \in MaybeElems :
          \E v \in {None} \cup {Some(x) : x \in ElemValues(e)} :
            cod = [mode |-> "value", t |-> Maybe(e), v |-> v, dt |-> Maybe(e),
                   decl |-> 0, stream |-> <<>>, size |-> NoSize, enc |-> NoEnc,
                              dec |-> NoDec,
                   v2 |-> <<>>, enc2 |-> NoEnc, dec2 |-> NoDec, host |-> TRUE]
    \/ \E e \in MaybeElems, s \in {<<>>} \cup {<<b>> \o t : b \in PresenceBytes, t \in MaybeTails} :
            cod = [mode |-> "raw", t |-> Maybe(e), v |-> <<>>, dt |-> Maybe(e),
                   decl |-> 0, stream |-> s, size |-> NoSize, enc |-> NoEnc,
                              dec |-> NoDec,
                   v2 |-> <<>>, enc2 |-> NoEnc, dec2 |-> NoDec, host |-> TRUE]

\* key/value pairs on the wire, keys repeated or not
WirePairs == SeqsUpTo({1, 300} \X {7, 9}, MaxLen)
RECURSIVE PairBytes(_)
\* the bytes of the pairs: VarInt key, u8 value
PairBytes(pairs) ==
    IF pairs = <<>> THEN <<>>
    ELSE EncodeT(VarInt, Head(pairs)[1]).out \o EncodeT(U8, Head(pairs)[2]).out
         \o PairBytes(Tail(pairs))

\* a stream that declares the pairs of cod.v and carries them, followed or not
\* by more bytes
CodMapRawInit ==
    \E dt \in {HashMap(VarInt, U8), LimitedMap(VarInt, U8, LimitN)}, w \in WirePairs,
       tail \in {<<>>, <<1, 9>>} :
        cod = [mode |-> "raw", t |-> dt, v |-> w, dt |-> dt, decl |-> Len(w),
               stream |-> EncodeLen(Len(w)) \o PairBytes(w) \o tail, size |-> NoSize,
               enc |-> NoEnc, dec |-> NoDec,
                   v2 |-> <<>>, enc2 |-> NoEnc, dec2 |-> NoDec, host |-> TRUE]

\* most elements of a sequence in a run of two values
MaxPair == 2
PairTypes ==
    ElemTypes \cup {Vec(e) : e \in ElemTypes}
    \cup {LimitedVec(VarInt, LimitN), HashMap(VarInt, U8), Array(Maybe(VarInt), 2)}
PairValues(t) ==
    CASE t.d \in {"Vec", "LimitedVec"} -> SeqsUpTo(ElemValues(t.t), MaxPair)
      [] t.d = "HashMap" -> {m \in MapValues : Len(m) <= MaxPair}
      [] t.d = "Array" -> [1..t.n -> ElemValues(t.t)]
      [] OTHER -> ElemValues(t)

\* two values of one delegate, to be encoded one after the other into one
\* Cursor and decoded one after the other from it
CodPairInit ==
    \E t \in PairTypes :
        \E v1 \in PairValues(t), v2 \in PairValues(t) :
            cod = [mode |-> "pair", t |-> t, v |-> v1, dt |-> t, decl |-> 0,
                   stream |-> <<>>, size |-> NoSize, enc |-> NoEnc, dec |-> NoDec,
                   v2 |-> v2, enc2 |-> NoEnc, dec2 |-> NoDec, host |-> TRUE]

\* VarInt elements on the wire: 7, 300, one of six bytes (too large) and one cut
\* after its first byte
ElemPieces == {<<7>>, <<172, 2>>, <<255, 255, 255, 255, 255, 1>>, <<128>>}
\* containers of VarInt elements and what precedes the elements on the wire
ElemDelegates ==
    {Vec(VarInt), LimitedVec(VarInt, LimitN), Array(VarInt, 2), HashMap(VarInt, VarInt),
     Maybe(VarInt), Vec(Maybe(VarInt))}
ElemHead(dt) ==
    CASE dt.d \in {"Vec", "LimitedVec"} -> EncodeLen(2)
      [] dt.d = "HashMap" -> EncodeLen(1)
      [] dt.d = "Maybe" -> <<1>>
      [] OTHER -> <<>>
\* a stream that carries a container whose elements are taken from ElemPieces,
\* each preceded by the presence byte 1 when they are Maybe<VarInt>
CodElemsInit ==
    \E dt \in ElemDelegates, p1 \in ElemPieces, p2 \in ElemPieces, p3 \in ElemPieces :
        LET m == IF dt = Vec(Maybe(VarInt)) THEN <<1>> ELSE <<>>
        IN  cod = [mode |-> "elems", t |-> dt, v |-> <<>>, dt |-> dt, decl |-> 2,
                   stream |-> ElemHead(dt) \o m \o p1 \o m \o p2 \o p3, size |-> NoSize,
                   enc |-> NoEnc, dec |-> NoDec,
                   v2 |-> <<>>, enc2 |-> NoEnc, dec2 |-> NoDec, host |-> TRUE]

CodInit ==
    \/ CodValueInit \/ CodRawInit \/ CodStringInit \/ CodArrayInit \/ CodMaybeInit
    \/ CodMapRawInit \/ CodPairInit \/ CodElemsInit

\* PacketComponent::size
CodSize ==
    /\ cod.mode \in {"value", "pair"} /\ cod.size = NoSize
    /\ cod' = [cod EXCEPT !.size = SizeT(cod.t, cod.v)]
    /\ UNCHANGED <<varVars, nbt, alg>>

\* encode_component into Cursor::new(vec![]); the cursor then holds the bytes
CodEncode ==
    /\ cod.mode \in {"value", "pair"} /\ cod.enc = NoEnc
    /\ LET r == EncodeT(cod.t, cod.v)
       IN  cod' = [cod EXCEPT !.enc = r, !.stream = r.out]
    /\ UNCHANGED <<varVars, nbt, alg>>

\* decode_component from position 0 of the cursor
CodDecode ==
    /\ cod.dec = NoDec
    /\ \/ cod.mode \in {"raw", "elems"}
       \/ cod.mode = "value" /\ cod.enc.res = Ok
       \/ cod.mode = "pair" /\ cod.enc2.res = Ok
    /\ cod' = [cod EXCEPT !.dec = DecodeT(cod.dt, cod.stream, 0, cod.host)]
    /\ UNCHANGED <<varVars, nbt, alg>>

\* a second encode_component into the same cursor, after the first value
CodEncode2 ==
    /\ cod.mode = "pair" /\ cod.enc.res = Ok /\ cod.enc2 = NoEnc
    /\ LET r == EncodeT(cod.t, cod.v2)
       IN  cod' = [cod EXCEPT !.enc2 = r, !.stream = cod.stream \o r.out]
    /\ UNCHANGED <<varVars, nbt, alg>>

\* a second decode_component from where the first left the cursor
CodDecode2 ==
    /\ cod.mode = "pair" /\ cod.dec.res = Ok /\ cod.dec2 = NoDec
    /\ cod' = [cod EXCEPT !.dec2 = DecodeT(cod.dt, cod.stream, cod.dec.pos, cod.host)]
    /\ UNCHANGED <<varVars, nbt, alg>>

CodNext == CodSize \/ CodEncode \/ CodDecode \/ CodEncode2 \/ CodDecode2

(***************************************************************************)
(* Tree runs.  load_tag is a recursive async function; its activations are *)
(* the frames of nbt.stack, innermost last, and one action is one          *)
(* activation's code between two nested calls.  A run has                  *)
(*   mode     "value" (a Tag is sized, written and read back), "raw" (a    *)
(*            stream is read) or "chain" (a stream of nested containers),  *)
(*   tag, bit the Tag and the kind load_tag is called with at the root,    *)
(*   pattern, levels   the kinds and the number of the nested containers   *)
(*            of a chain,                                                  *)
(*   checks   whether the build panics on integer overflow,                *)
(*   stream, written, size   the cursor's bytes, whether write_tag has     *)
(*            run, and size_tag's answer (-1 before it ran),               *)
(*   pc       "idle", "call" (load_tag(call.bit, call.depth) is entered),  *)
(*            "loop" (the innermost Compound is at its loop head), "ret"   *)
(*            (a nested load_tag returned ret) or "done",                  *)
(*   io       [pos, acc, log], res, val   the outcome of the run,          *)
(*   opt, dsize, dval   for the modes "doc" (an Option<Tag> is sized,      *)
(*            encoded and decoded by EnsuredCompoundTag<LIMIT>) and        *)
(*            "docraw" (it decodes a stream): the Option<Tag>, the answer  *)
(*            of size and the decoded Option<Tag>.                         *)
(***************************************************************************)
NoCall == [bit |-> 0, depth |-> 0]
NoTagRes == Err("None")
NewIo(limit) ==
    [pos |-> 0, acc |-> [limit |-> U64(limit), current |-> U64(0)], log |-> <<>>,
     host |-> TRUE]
NbtIdle ==
    nbt = [mode |-> "idle", tag |-> TagEnd, bit |-> 0, pattern |-> "none", levels |-> 0,
           checks |-> TRUE,
           stream |-> <<>>, written |-> FALSE, size |-> -1, pc |-> "idle", call |-> NoCall,
           ret |-> TagEnd, stack |-> <<>>, io |-> NewIo(0), res |-> NoTagRes, val |-> TagEnd,
           opt |-> None, dsize |-> NoSize, dval |-> None]

NewRun(mode, tag, bit, levels, checks, stream, limit) ==
    [mode |-> mode, tag |-> tag, bit |-> bit, pattern |-> "none", levels |-> levels,
     checks |-> checks,
     stream |-> stream, written |-> mode \notin {"value", "doc"}, size |-> -1, pc |-> "idle",
     call |-> NoCall, ret |-> TagEnd, stack |-> <<>>, io |-> NewIo(limit),
     res |-> NoTagRes, val |-> TagEnd, opt |-> None, dsize |-> NoSize, dval |-> None]

\* the frame of a TagList read in its element loop / of a CompoundTag read
ListFrame(tag_byte, left, depth) ==
    [f |-> "list", tag_byte |-> tag_byte, left |-> left, v |-> <<>>, key |-> <<>>,
     depth |-> depth]
CompoundFrame(depth) ==
    [f |-> "compound", tag_byte |-> 0, left |-> 0, v |-> <<>>, key |-> <<>>, depth |-> depth]

Top == nbt.stack[Len(nbt.stack)]
Pop == SubSeq(nbt.stack, 1, Len(nbt.stack) - 1)
ReplaceTop(frame) == Append(Pop, frame)
\* the io of a step: the debits of the step before are forgotten
StepIo == [nbt.io EXCEPT !.log = <<>>]

\* an error leaves load_tag and, through `?`, every activation below it
Raise(err, io) ==
    [nbt EXCEPT !.pc = "done", !.res = err, !.io = io, !.stack = <<>>, !.call = NoCall]

\* size_tag(&value)
NbtSize ==
    /\ nbt.mode = "value" /\ nbt.pc = "idle" /\ nbt.size = -1
    /\ nbt' = [nbt EXCEPT !.size = size_tag(nbt.tag)]
    /\ UNCHANGED <<varVars, cod, alg>>

\* write_tag(&mut cursor, &value) into Cursor::new(vec![])
NbtWrite ==
    /\ nbt.mode = "value" /\ ~nbt.written
    /\ nbt' = [nbt EXCEPT !.written = TRUE, !.stream = write_tag(nbt.tag)]
    /\ UNCHANGED <<varVars, cod, alg>>

\* load_tag(&mut cursor, bit, 0, &mut NbtAccounter { limit, current: 0 })
NbtStart ==
    /\ nbt.mode \in {"value", "raw", "chain"} /\ nbt.pc = "idle" /\ nbt.written
    /\ nbt' = [nbt EXCEPT !.pc = "call", !.call = [bit |-> nbt.bit, depth |-> 0]]
    /\ UNCHANGED <<varVars, cod, alg>>

\* load_tag on a kind without nested tags
LoadLeaf ==
    /\ nbt.pc = "call" /\ nbt.call.bit \in LeafBits
    /\ LET r == LoadLeafTag(nbt.stream, nbt.call.bit, StepIo, nbt.checks)
       IN  nbt' = IF r.res # Ok THEN Raise(r.res, r.io)
                  ELSE [nbt EXCEPT !.pc = "ret", !.ret = r.val, !.io = r.io, !.call = NoCall]
    /\ UNCHANGED <<varVars, cod, alg>>

\* load_tag: `bit => NbtError::invalid_tag_bit(bit)`
LoadInvalid ==
    /\ nbt.pc = "call" /\ nbt.call.bit \notin 0..12
    /\ nbt' = Raise([e |-> "InvalidTagBit", bit |-> nbt.call.bit], StepIo)
    /\ UNCHANGED <<varVars, cod, alg>>

\* TagList read, up to the first nested load_tag or, for an empty list, the end
LoadList ==
    /\ nbt.pc = "call" /\ nbt.call.bit = 9
    /\ LET depth == nbt.call.depth
           r == EnterList(nbt.stream, StepIo, depth, nbt.checks)
       IN  nbt' = IF r.res # Ok THEN Raise(r.res, r.io)
                  ELSE IF r.val.length <= 0
                  THEN [nbt EXCEPT !.pc = "ret", !.ret = TagList(r.val.tag_byte, <<>>),
                                   !.io = r.io, !.call = NoCall]
                  ELSE [nbt EXCEPT !.io = r.io,
                                   !.stack = Append(@, ListFrame(r.val.tag_byte, r.val.length, depth)),
                                   !.call = [bit |-> r.val.tag_byte, depth |-> depth + 1]]
    /\ UNCHANGED <<varVars, cod, alg>>

\* TagList read: `v.push(load_tag(..).await?)` and the next turn of the loop
ReturnToList ==
    /\ nbt.pc = "ret" /\ nbt.stack # <<>> /\ Top.f = "list"
    /\ LET v == Append(Top.v, nbt.ret)
       IN  nbt' = IF Top.left = 1
                  THEN [nbt EXCEPT !.ret = TagList(Top.tag_byte, v), !.stack = Pop,
                                   !.io = StepIo]
                  ELSE [nbt EXCEPT !.pc = "call", !.io = StepIo,
                                   !.call = [bit |-> Top.tag_byte, depth |-> Top.depth + 1],
                                   !.stack = ReplaceTop([Top EXCEPT !.v = v, !.left = @ - 1])]
    /\ UNCHANGED <<varVars, cod, alg>>

\* CompoundTag read, up to its loop
LoadCompound ==
    /\ nbt.pc = "call" /\ nbt.call.bit = 10
    /\ LET r == EnterCompound(StepIo, nbt.call.depth)
       IN  nbt' = IF r.res # Ok THEN Raise(r.res, r.io)
                  ELSE [nbt EXCEPT !.pc = "loop", !.io = r.io, !.call = NoCall,
                                   !.stack = Append(@, CompoundFrame(nbt.call.depth))]
    /\ UNCHANGED <<varVars, cod, alg>>

\* CompoundTag read: the loop from its head to the nested load_tag, or to the
\* `break` on a zero kind byte
CompoundEntry ==
    /\ nbt.pc = "loop"
    /\ LET r == EnterEntry(nbt.stream, StepIo)
       IN  nbt' = IF r.res # Ok THEN Raise(r.res, r.io)
                  ELSE IF r.val.tag_byte = 0
                  THEN [nbt EXCEPT !.pc = "ret", !.ret = CompoundTag(Top.v), !.io = r.io,
                                   !.stack = Pop]
                  ELSE [nbt EXCEPT !.pc = "call", !.io = r.io,
                                   !.call = [bit |-> r.val.tag_byte, depth |-> Top.depth + 1],
                                   !.stack = ReplaceTop([Top EXCEPT !.key = r.val.key])]
    /\ UNCHANGED <<varVars, cod, alg>>

\* mutant: an entry whose name is already present takes that entry's place
ReturnToCompound_Replace ==
    /\ nbt.pc = "ret" /\ nbt.stack # <<>> /\ Top.f = "compound"
    /\ LET a == Account(StepIo, U64(36))
       IN  nbt' = IF a.res # Ok THEN Raise(a.res, a.io)
                  ELSE [nbt EXCEPT !.pc = "loop", !.io = a.io,
                                   !.stack = ReplaceTop([Top EXCEPT
                                                 !.v = MapInsert(@, Top.key, nbt.ret),
                                                 !.key = <<>>])]
    /\ UNCHANGED <<varVars, cod, alg>>

\* CompoundTag read: `map.push((key, data)); accounter.account_bytes(36)?;`
ReturnToCompound ==
    /\ nbt.pc = "ret" /\ nbt.stack # <<>> /\ Top.f = "compound"
    /\ LET a == Account(StepIo, U64(36))
       IN  nbt' = IF a.res # Ok THEN Raise(a.res, a.io)
                  ELSE [nbt EXCEPT !.pc = "loop", !.io = a.io,
                                   !.stack = ReplaceTop([Top EXCEPT
                                                 !.v = Append(@, <<Top.key, nbt.ret>>),
                                                 !.key = <<>>])]
    /\ UNCHANGED <<varVars, cod, alg>>

\* the outermost load_tag returns Ok(tag)
NbtFinish ==
    /\ nbt.mode \in {"value", "raw", "chain"}
    /\ nbt.pc = "ret" /\ nbt.stack = <<>>
    /\ nbt' = [nbt EXCEPT !.pc = "done", !.res = Ok, !.val = nbt.ret, !.io = StepIo]
    /\ UNCHANGED <<varVars, cod, alg>>

\* EnsuredCompoundTag::size
EnsuredSize(input) ==
    IF input.some THEN SizeAddRaw(Dynamic(3), size_tag(input.v)) ELSE Constant(1)

\* EnsuredCompoundTag::encode: the bytes written to the writer
EnsuredEncode(component_ref) ==
    IF component_ref.some
    THEN <<10>> \o write_string(<<>>) \o write_tag(component_ref.v)
    ELSE <<0>>

\* EnsuredCompoundTag::decode accepting every nonzero kind byte as a Compound
EnsuredHead_AnyKind(stream, io) ==
    Try(ReadN(stream, io, 1), LAMBDA r :
    Bind(ToNat(FromBE(r.bytes)), LAMBDA b :
        IF b = 0 THEN Loaded(0, r.io)
        ELSE Try(read_string(stream, r.io), LAMBDA n : Loaded(10, n.io))))
\* EnsuredCompoundTag::decode up to its load_tag: the kind byte, and for kind 10
\* the root name read against the new accountant; the value is the kind byte
EnsuredHead(stream, io) ==
    Try(ReadN(stream, io, 1), LAMBDA r :
    Bind(ToNat(FromBE(r.bytes)), LAMBDA b :
        IF b = 0 THEN Loaded(0, r.io)
        ELSE IF b # 10 THEN LoadFailed([e |-> "InvalidTagBit", bit |-> b], r.io)
        ELSE Try(read_string(stream, r.io), LAMBDA n : Loaded(b, n.io))))

\* EnsuredCompoundTag::decode from position 0 under LIMIT = limit, in a build
\* with or without overflow checks and on a host that serves every allocation
\* or refuses the large ones: the result, the Option<Tag> and the bytes consumed
EnsuredDecode(stream, limit, overflow_checks, host) ==
    Bind(EnsuredHead(stream, [NewIo(limit) EXCEPT !.host = host]), LAMBDA h :
        IF h.res # Ok THEN [res |-> h.res, dval |-> None, pos |-> h.io.pos]
        ELSE IF h.val = 0 THEN [res |-> Ok, dval |-> None, pos |-> h.io.pos]
        ELSE Bind(load_tag(stream, h.val, 0, h.io, overflow_checks), LAMBDA t :
                 [res |-> t.res, dval |-> IF t.res = Ok THEN Some(t.val) ELSE None,
                  pos |-> t.io.pos]))

DocModes == {"doc", "docraw"}

\* EnsuredCompoundTag::size(&value)
DocSize ==
    /\ nbt.mode = "doc" /\ nbt.pc = "idle" /\ nbt.dsize = NoSize
    /\ nbt' = [nbt EXCEPT !.dsize = EnsuredSize(nbt.opt)]
    /\ UNCHANGED <<varVars, cod, alg>>

\* encode_component::<EnsuredCompoundTag> into Cursor::new(vec![])
DocEncode ==
    /\ nbt.mode = "doc" /\ ~nbt.written
    /\ nbt' = [nbt EXCEPT !.written = TRUE, !.stream = EnsuredEncode(nbt.opt)]
    /\ UNCHANGED <<varVars, cod, alg>>

\* decode_component::<EnsuredCompoundTag> from position 0, up to
\* `load_tag(read, b, 0, &mut accounter)` or to an early return
DocDecode ==
    /\ nbt.mode \in DocModes /\ nbt.pc = "idle" /\ nbt.written
    /\ LET r == EnsuredHead(nbt.stream, StepIo)
       IN  nbt' = IF r.res # Ok THEN Raise(r.res, r.io)
                  ELSE IF r.val = 0
                  THEN [nbt EXCEPT !.pc = "done", !.res = Ok, !.io = r.io, !.dval = None]
                  ELSE [nbt EXCEPT !.pc = "call", !.io = r.io,
                                   !.call = [bit |-> r.val, depth |-> 0]]
    /\ UNCHANGED <<varVars, cod, alg>>

\* `let tag = load_tag(..).await?; Ok(Some(tag))`
DocFinish ==
    /\ nbt.mode \in DocModes
    /\ nbt.pc = "ret" /\ nbt.stack = <<>>
    /\ nbt' = [nbt EXCEPT !.pc = "done", !.res = Ok, !.val = nbt.ret, !.io = StepIo,
                          !.dval = Some(nbt.ret)]
    /\ UNCHANGED <<varVars, cod, alg>>

NbtNext ==
    \/ NbtSize \/ NbtWrite \/ NbtStart \/ LoadLeaf \/ LoadInvalid \/ LoadList
    \/ ReturnToList \/ LoadCompound \/ CompoundEntry \/ ReturnToCompound \/ NbtFinish
    \/ DocSize \/ DocEncode \/ DocDecode \/ DocFinish

(***************************************************************************)
(* Inputs of the tree runs.                                                *)
(***************************************************************************)
\* most items of a generated List or Compound
MaxItems == 2

\* the largest length a u16 prefix carries
U16Max == 65535

\* chars: 'a', 'b', U+0000, U+00E9, U+20AC, U+1F600
Str_abc == <<97, 98, 99>>
Str_def == <<100, 101, 102>>
StrSamples == {<<>>, <<116, 101, 115, 116>>, <<0>>, <<97, 0, 233>>, <<8364>>, <<128512, 98>>}
\* a string of U16Max + 1 chars 'a'
LongString == SubSeq([i \in 1..(U16Max + 1) |-> 97], 1, U16Max + 1)

\* the bits of 12.30f32, of a NaN and of -0.0, and of 20.30f64 and a NaN
F32Samples == {FromBE(<<65, 68, 204, 205>>), FromBE(<<127, 192, 0, 0>>), FromBE(<<128, 0, 0, 0>>)}
F64Samples ==
    {FromBE(<<64, 52, 76, 204, 204, 204, 204, 205>>), FromBE(<<127, 248, 0, 0, 0, 0, 0, 1>>)}

LeafTags ==
    {TagEnd, TagByte(10), TagByte(255), TagShort(20), TagShort(U16Max), TagInt(30), TagInt(-1),
     TagInt(I32Min), TagLong(U64(40)), TagLong(WordOf(-8877777, 64, 21)),
     TagByteArray(<<10, 20, 0, 5>>), TagByteArray(<<>>), TagIntArray(<<30, 23, -1>>),
     TagIntArray(<<>>), TagLongArray(<<U64(321423), U64(-1)>>)}
    \cup {TagFloat(x) : x \in F32Samples} \cup {TagDouble(x) : x \in F64Samples}
    \cup {TagString(s) : s \in StrSamples}

Shorts == {TagShort(10), TagShort(20)}
\* Lists of Shorts, and Lists whose items are not of the declared kind
ListTags ==
    {TagList(2, s) : s \in SeqsUpTo(Shorts, MaxItems)}
    \cup {TagList(0, <<>>), TagList(0, <<TagEnd, TagEnd>>), TagList(1, <<TagShort(5)>>),
          TagList(2, <<TagByte(1)>>), TagList(13, <<TagByte(1)>>), TagList(13, <<>>),
          TagList(8, <<TagString(Str_abc), TagString(<<>>)>>),
          TagList(9, <<TagList(2, <<TagShort(10)>>), TagList(1, <<>>)>>),
          TagList(10, <<CompoundTag(<<>>), CompoundTag(<<<<Str_abc, TagByte(1)>>>>)>>),
          TagList(3, <<TagInt(1), TagLong(U64(2))>>)}

EntryValues ==
    {TagShort(15), TagEnd, TagList(2, <<TagShort(10), TagShort(20)>>), CompoundTag(<<>>)}
\* Compounds of up to MaxItems entries, names repeated or not, and a Compound
\* holding each leaf, nested Compounds and names with chars outside ASCII
CompoundTags ==
    {CompoundTag(m) : m \in SeqsUpTo({Str_abc, Str_def} \X EntryValues, MaxItems)}
    \cup {CompoundTag(<<<<Str_abc, t>>>>) : t \in LeafTags}
    \cup {CompoundTag(<<<<Str_abc, TagShort(15)>>, <<Str_def, TagFloat(FromBE(<<65, 68, 204, 205>>))>>>>),
          CompoundTag(<<<<<<0, 233>>, CompoundTag(<<<<<<>>, TagInt(7)>>>>)>>, <<Str_def, TagByte(2)>>>>),
          CompoundTag(<<<<Str_abc, CompoundTag(<<<<Str_def, TagEnd>>>>)>>, <<Str_def, TagByte(2)>>>>)}

NbtTags == LeafTags \cup ListTags \cup CompoundTags

RECURSIVE Weight(_)
RECURSIVE WeightItems(_, _)
WeightItems(items, i) ==
    IF i > Len(items) THEN 0 ELSE Weight(items[i]) + WeightItems(items, i + 1)
RECURSIVE WeightEntries(_, _)
WeightEntries(map, i) ==
    IF i > Len(map) THEN 0
    ELSE 28 + StrLen(map[i][1], 1, Len(map[i][1])) + Weight(map[i][2]) + 36
         + WeightEntries(map, i + 1)
\* the bytes the accountant is debited for a Tag
Weight(tag) ==
    CASE tag[1] = 0 -> 8
      [] tag[1] = 1 -> 9
      [] tag[1] = 2 -> 10
      [] tag[1] \in {3, 5} -> 12
      [] tag[1] \in {4, 6} -> 16
      [] tag[1] = 7 -> 24 + Len(tag[2])
      [] tag[1] = 8 -> 36 + StrLen(tag[2], 1, Len(tag[2]))
      [] tag[1] = 9 -> 37 + 4 * Len(tag[2].items) + WeightItems(tag[2].items, 1)
      [] tag[1] = 10 -> 48 + WeightEntries(tag[2], 1)
      [] tag[1] = 11 -> 24 + 4 * Len(tag[2])
      [] tag[1] = 12 -> 24 + 8 * Len(tag[2])

\* limits of a value run: none, the weight of the Tag, one less, one more
ValueLimits(tag) == {0, Weight(tag) - 1, Weight(tag), Weight(tag) + 1}

NbtValueInit ==
    \/ \E tag \in NbtTags :
          \E limit \in ValueLimits(tag) :
              nbt = NewRun("value", tag, get_tag_bit(tag), 0, TRUE, <<>>, limit)
    \/ nbt = NewRun("value", TagString(LongString), 8, 0, TRUE, <<>>, 0)

\* counts an i32 prefix can carry
CountSamples ==
    {I32Min, -1073741824, -1, 0, 1, 2, 300, 268435456, 536870911, 1073741824, 1073741825,
     I32Max}
\* counts for which the decoder, unlimited, requests a buffer the host serves
SmallCounts == {c \in CountSamples : c <= 2}
RawPayloads == {<<>>, <<0, 0, 0, 7, 0, 0, 0, 8, 0, 0, 0, 0, 0, 0, 0, 9>>}
RawLimits == {0, 41, 61, 1300}
\* a raw stream: the header of a ByteArray, List, IntArray or LongArray with a
\* declared count, followed by a payload
NbtRawInit ==
    \E bit \in {7, 9, 11, 12}, c \in CountSamples, p \in RawPayloads, limit \in RawLimits,
       checks \in BOOLEAN, host \in BOOLEAN :
        /\ limit = 0 => c \in SmallCounts
        /\ ~host => c > 300
        /\ nbt = [NewRun("raw", TagEnd, bit, 0, checks,
                          (IF bit = 9 THEN <<3>> ELSE <<>>) \o I32BE(c) \o p, limit)
                  EXCEPT !.io.host = host]

\* a chain of containers nested `levels` deep: "list" is Lists of one List,
\* "compound" is Compounds of one entry with an empty name, "mixed" alternates;
\* the innermost container is empty
ChainKind(pattern, i) ==
    CASE pattern = "list" -> 9
      [] pattern = "compound" -> 10
      [] OTHER -> IF i % 2 = 1 THEN 9 ELSE 10
ChainHead(pattern, levels, i) ==
    IF ChainKind(pattern, i) = 9
    THEN IF i < levels THEN <<ChainKind(pattern, i + 1), 0, 0, 0, 1>> ELSE <<0, 0, 0, 0, 0>>
    ELSE IF i < levels THEN <<ChainKind(pattern, i + 1), 0, 0>> ELSE <<>>
ChainTail(pattern, levels, i) ==
    IF ChainKind(pattern, levels + 1 - i) = 9 THEN <<>> ELSE <<0>>
\* the bytes of the heads of levels 1..n
ChainHeads(pattern, levels, n) ==
    Flatten(SubSeq([i \in 1..n |-> ChainHead(pattern, levels, i)], 1, n), 1, n)
ChainStream(pattern, levels) ==
    ChainHeads(pattern, levels, levels)
    \o Flatten(SubSeq([i \in 1..levels |-> ChainTail(pattern, levels, i)], 1, levels), 1, levels)

ChainPatterns == {"list", "compound", "mixed"}
ChainLevels == {1, 2, DepthLimit, DepthLimit + 1, DepthLimit + 2}
\* the debits of the first n levels of a chain up to the load_tag of level
\* n + 1: 37 + 4 * 1 for a List, 48 + 28 for a Compound and its entry
ChainCost(pattern, n) ==
    CASE pattern = "list" -> (37 + 4) * n
      [] pattern = "compound" -> (48 + 28) * n
      [] OTHER -> (37 + 4) * ((n + 1) \div 2) + (48 + 28) * (n \div 2)
\* limits of a chain: none, and for a chain one level too deep the limit that
\* the levels in front of the refused one use up, and one that leaves room for
\* the debit of the refused one
ChainLimits(pattern, levels) ==
    IF levels = DepthLimit + 2
    THEN {0, ChainCost(pattern, DepthLimit + 1), ChainCost(pattern, DepthLimit + 1) + 48}
    ELSE {0}
NbtChainInit ==
    \E pattern \in ChainPatterns, levels \in ChainLevels :
        \E limit \in ChainLimits(pattern, levels) :
            nbt = [NewRun("chain", TagEnd, ChainKind(pattern, 1), levels, TRUE,
                          ChainStream(pattern, levels), limit) EXCEPT !.pattern = pattern]

\* values of Option<Tag>: absent, Compounds, and Tags of other kinds
DocTags ==
    {CompoundTag(<<>>), TagByte(10), TagEnd, TagList(2, <<TagShort(10)>>),
     CompoundTag(<<<<Str_abc, TagByte(10)>>, <<Str_def, TagShort(20)>>, <<Str_abc, TagInt(30)>>>>),
     CompoundTag(<<<<Str_abc, TagList(2, <<TagShort(10), TagShort(20)>>)>>>>),
     CompoundTag(<<<<Str_abc, CompoundTag(<<<<Str_def, TagString(Str_abc)>>>>)>>>>)}
DocValues == {None} \cup {Some(t) : t \in DocTags}
\* LIMIT of EnsuredCompoundTag<LIMIT> for a value: none, the weight of the Tag,
\* one less
DocLimits(x) == IF x.some THEN {0, Weight(x.v) - 1, Weight(x.v)} ELSE {0, 1}
NbtDocInit ==
    \E x \in DocValues :
        \E limit \in DocLimits(x) :
            nbt = [NewRun("doc", TagEnd, 0, 0, TRUE, <<>>, limit) EXCEPT !.opt = x]

\* streams for EnsuredCompoundTag::decode: a kind byte, then nothing, a root name
\* (empty or "ab") and a Compound (empty or with one Byte), or other bytes
DocKinds == {0, 1, 9, 10, 11, 255}
DocTails ==
    {<<>>, <<0, 0, 0>>, <<0, 2, 97, 98, 0>>, <<0, 0, 1, 0, 1, 97, 5, 0>>,
     <<0, 2, 97, 98, 1, 0, 1, 97, 5, 0>>, <<7, 7>>, <<0, 2, 97>>,
     <<0, 0, 10, 0, 1, 97, 0, 0>>, <<0, 0, 9, 0, 1, 97, 1, 0, 0, 0, 2, 5, 6, 0>>}
DocRawLimits == {0, 1, 48, 50, 121, 123, 161, 200}
\* documents whose root Compound holds one entry "a" with a declared count:
\* a List of 2^29 Ints, an IntArray of 2^30, a LongArray of 2^28, a List of 2 Ints
DocCounted ==
    {<<10, 0, 0, 9, 0, 1, 97, 3, 32, 0, 0, 0>>, <<10, 0, 0, 11, 0, 1, 97, 64, 0, 0, 0>>,
     <<10, 0, 0, 12, 0, 1, 97, 16, 0, 0, 0>>,
     <<10, 0, 0, 9, 0, 1, 97, 3, 0, 0, 0, 2, 0, 0, 0, 5, 0, 0, 0, 6, 0>>}
NbtDocRawInit ==
    \/ \E b \in DocKinds, tail \in DocTails, limit \in DocRawLimits, checks \in BOOLEAN :
          nbt = NewRun("docraw", TagEnd, 0, 0, checks, <<b>> \o tail, limit)
    \/ \E limit \in DocRawLimits : nbt = NewRun("docraw", TagEnd, 0, 0, TRUE, <<>>, limit)
    \/ \E doc \in DocCounted, limit \in DocRawLimits, checks \in BOOLEAN, host \in BOOLEAN :
          nbt = [NewRun("docraw", TagEnd, 0, 0, checks, doc, limit) EXCEPT !.io.host = host]

NbtInit == NbtValueInit \/ NbtRawInit \/ NbtChainInit \/ NbtDocInit \/ NbtDocRawInit

(***************************************************************************)
(* Size sums (transport.rs): a program adds three sizes a, b, c both ways  *)
(* round and adds a raw count n to a.                                      *)
(***************************************************************************)
\* the counts of the samples: 0, 1, 2, usize::MAX and usize::MAX - 1
SizeCounts == {0, 1, 2, -1, -2}
SizeSamples == {Constant(x) : x \in SizeCounts} \cup {Dynamic(x) : x \in SizeCounts}

\* the sums of the program, in the order it computes them
SumSteps == <<"ab", "ba", "bc", "ab_c", "a_bc">>

AlgIdle ==
    alg = [mode |-> "idle", checks |-> FALSE, a |-> NoSize, b |-> NoSize, c |-> NoSize,
           n |-> 0, pc |-> 1, ab |-> NoSize, ba |-> NoSize, bc |-> NoSize,
           ab_c |-> NoSize, a_bc |-> NoSize, an |-> NoSize]

\* three sizes, a raw count, and whether the build has overflow checks
AlgInit ==
    \E a \in SizeSamples, b \in SizeSamples, c \in SizeSamples, n \in SizeCounts,
       checks \in BOOLEAN :
        alg = [mode |-> "sum", checks |-> checks, a |-> a, b |-> b, c |-> c,
               n |-> n, pc |-> 1, ab |-> NoSize, ba |-> NoSize, bc |-> NoSize,
               ab_c |-> NoSize, a_bc |-> NoSize, an |-> NoSize]

AlgPanicked == \E s \in {"ab", "ba", "bc", "ab_c", "a_bc", "an"} : alg[s] = SizePanic

\* <Size as Add>::add: the next sum of the program
AlgAdd ==
    /\ alg.mode = "sum" /\ alg.pc <= Len(SumSteps) /\ ~AlgPanicked
    /\ LET s == SumSteps[alg.pc]
           x == CASE s = "ab" -> alg.a [] s = "ba" -> alg.b [] s = "bc" -> alg.b
                  [] s = "ab_c" -> alg.ab [] s = "a_bc" -> alg.a
           y == CASE s = "ab" -> alg.b [] s = "ba" -> alg.a [] s = "bc" -> alg.c
                  [] s = "ab_c" -> alg.c [] s = "a_bc" -> alg.bc
       IN  alg' = [alg EXCEPT ![s] = AddOutcome(alg.checks, x.n, y.n, SizeAdd(x, y)),
                              !.pc = alg.pc + 1]
    /\ UNCHANGED <<varVars, cod, nbt>>

\* <Size as Add<usize>>::add: a + n
AlgAddRaw ==
    /\ alg.mode = "sum" /\ alg.an = NoSize /\ ~AlgPanicked
    /\ alg' = [alg EXCEPT !.an = AddOutcome(alg.checks, alg.a.n, alg.n, SizeAddRaw(alg.a, alg.n))]
    /\ UNCHANGED <<varVars, cod, nbt>>

AlgNext == AlgAdd \/ AlgAddRaw

InitNbt == VarIdle /\ CodIdle /\ NbtInit /\ AlgIdle
SpecNbt == InitNbt /\ [][NbtNext]_vars

InitVarInt == VarInit /\ CodIdle /\ NbtIdle /\ AlgIdle
SpecVarInt == InitVarInt /\ [][VarNext]_vars

InitCodec == VarIdle /\ CodInit /\ NbtIdle /\ AlgIdle

InitSize == VarIdle /\ CodIdle /\ NbtIdle /\ AlgInit
SpecSize == InitSize /\ [][AlgNext]_vars
SpecCodec == InitCodec /\ [][CodNext]_vars

\* the runs of the delegates and of the tree codec together
SpecContainers == (InitCodec \/ InitNbt) /\ [][CodNext \/ NbtNext]_vars


(***************************************************************************)
(* The wire form of a word, stated without the encoder's loop: its 7-bit   *)
(* groups, least significant first, up to the group of the highest set     *)
(* bit, each but the last flagged with 128.                                *)
(***************************************************************************)
HighBit(word) ==
    LET set == {i \in 1..Len(word) : word[i] = 1}
    IN  IF set = {} THEN 0 ELSE CHOOSE i \in set : \A j \in set : j <= i

GroupOf(word, j) ==
    LET bit(b) == IF 7 * (j - 1) + b <= Len(word) THEN word[7 * (j - 1) + b] ELSE 0
    IN  bit(1) + 2 * bit(2) + 4 * bit(3) + 8 * bit(4) + 16 * bit(5) + 32 * bit(6) + 64 * bit(7)

NGroups(word) == IF HighBit(word) = 0 THEN 1 ELSE (HighBit(word) + 6) \div 7

WireForm(word) ==
    LET n == NGroups(word)
    IN  SubSeq([j \in 1..n |-> GroupOf(word, j) + (IF j < n THEN 128 ELSE 0)], 1, n)

IsPrefix(a, b) == Len(a) <= Len(b) /\ a = SubSeq(b, 1, Len(a))

ReadDone == rd.res \in {"Ok", "EOF", "VarNumTooLarge"}

(***************************************************************************)
(* Claims about the variable-length integer codec.                         *)
(***************************************************************************)

\* C1: varint round trip.  Whenever read_var_int (read_var_long) has finished on
\* exactly the bytes a completed write_var_int (write_var_long) of v put into the
\* sink, it returned v and consumed all of those bytes and no others.
C1_VarIntRoundTrip ==
    (vcfg.mode = "roundtrip" /\ ReadDone /\ ~wr.short) =>
        /\ rd.res = "Ok"
        /\ rd.me.value = vcfg.orig
        /\ rd.stream = wr.sink
        /\ rd.pos = Len(wr.sink)

\* C1 witness: the 32-bit minimum went through its five bytes and came back, and
\* both futures were suspended on the way.
C1_Witness ==
    /\ vcfg.mode = "roundtrip" /\ vcfg.w = 32 /\ vcfg.orig = ToBits(I32Min, 32)
    /\ rd.res = "Ok" /\ rd.stream = <<128, 128, 128, 128, 8>> /\ rd.pos = 5
    /\ ToI32(rd.me.value) = I32Min

\* C6: varint decode is bounded.  The 32-bit decoder takes at most 5 bytes from the
\* stream and the 64-bit decoder at most 10; when the first 5 (10) bytes all carry
\* the continuation bit the decode ends with VarNumTooLarge having taken exactly
\* those bytes, whatever follows them; and a value is returned only after a byte
\* without continuation bit, at most the 5th (10th).
C6_VarIntBounded ==
    LET n == IF Len(rd.me.value) = 32 THEN 5 ELSE 10
    IN  /\ rd.pos <= n
        /\ (ReadDone /\ Len(rd.stream) >= n /\ \A i \in 1..n : rd.stream[i] >= 128) =>
               (rd.res = "VarNumTooLarge" /\ rd.pos = n)
        /\ rd.res = "VarNumTooLarge" =>
               (rd.pos = n /\ \A i \in 1..n : rd.stream[i] >= 128)
        /\ rd.res = "Ok" =>
               (rd.me.bit_offset <= 7 * n /\ rd.stream[rd.pos] < 128
                /\ \A i \in 1..(rd.pos - 1) : rd.stream[i] >= 128)

\* C6 witness: a 64-bit decode of ten continuation bytes followed by more input
\* ended with VarNumTooLarge after ten bytes.
C6_Witness ==
    /\ vcfg.mode = "raw" /\ vcfg.w = 64 /\ rd.res = "VarNumTooLarge"
    /\ rd.pos = 10 /\ Len(rd.stream) > 10

\* C7: varint decode is suspension-safe.  After any pattern of Pending answers the
\* future holds exactly what an uninterrupted decode holds after the same bytes
\* (accumulator and bit offset, one byte per request: offset = 7 * bytes taken),
\* and when it finishes, outcome, value and bytes consumed are those of the decode
\* that never suspends.
C7_ReadSuspensionSafe ==
    LET w    == Len(rd.me.value)
        ref  == ReadVarNum(w, rd.stream, 0)
        part == ReadVarPoll(NewReader(w), rd.stream, 0, rd.pos)
    IN  /\ rd.res = "Pending" =>
              (rd.me = part.me /\ rd.me.bit_offset = 7 * rd.pos /\ part.pos = rd.pos)
        /\ ReadDone =>
              (rd.res = ref.res /\ rd.pos = ref.pos /\ rd.me = ref.me)

\* C7 witness: a raw 32-bit decode that was suspended finished with a value
\* after five bytes.
C7_Witness ==
    /\ vcfg.mode = "raw" /\ vcfg.w = 32 /\ rd.suspended
    /\ rd.res = "Ok" /\ rd.pos = 5 /\ rd.stream = <<255, 255, 255, 255, 127>>

\* C8: varint encode is suspension-safe.  Under any pattern of Pending answers the
\* sink holds at every moment a prefix of the wire form of the original value,
\* and when write_var_int completes it holds exactly that wire form: each byte
\* once, in order, although the future's stored value is by then the shifted
\* remainder.
C8_WriteSuspensionSafe ==
    (vcfg.mode = "roundtrip" /\ ~wr.short) =>
        /\ IsPrefix(wr.sink, WireForm(vcfg.orig))
        /\ wr.res = "Ok" => wr.sink = WireForm(vcfg.orig)
        /\ wr.res = "Pending" => wr.me = Shr(vcfg.orig, 7 * Len(wr.sink))

\* C8 witness: a write of a three-byte value completed after the future had
\* overwritten its stored value.
C8_Witness ==
    /\ vcfg.mode = "roundtrip" /\ vcfg.w = 32 /\ vcfg.orig = ToBits(55324, 32)
    /\ wr.res = "Ok" /\ wr.sink = <<156, 176, 3>> /\ wr.me # vcfg.orig /\ ~wr.short


\* the five vectors of var_int_tests!()
VarIntTable ==
    {<<25, <<25>>>>, <<55324, <<156, 176, 3>>>>, <<-8877777, <<175, 146, 226, 251, 15>>>>,
     <<I32Max, <<255, 255, 255, 255, 7>>>>, <<I32Min, <<128, 128, 128, 128, 8>>>>}

\* C16: varint wire form.  When write_var_int (write_var_long) of v has completed
\* on a sink that took every byte offered, the sink holds the 7-bit groups of v as
\* an unsigned word, least significant first; every byte but the last has the high
\* bit set and the last has it clear; the bytes stop at the first group after which
\* no set bit remains; so 0 is the single byte 0, no encoding of several bytes ends
\* in a byte of payload 0, a negative v takes 5 bytes (10 for 64 bits), and the
\* five vectors of the table give exactly the listed bytes.
C16_WireForm ==
    (vcfg.mode = "roundtrip" /\ wr.res = "Ok" /\ ~wr.short) =>
        LET v == vcfg.orig
            n == Len(wr.sink)
        IN  /\ n >= 1
            /\ \A j \in 1..n : wr.sink[j] % 128 = GroupOf(v, j)
            /\ \A j \in 1..(n - 1) : wr.sink[j] >= 128
            /\ wr.sink[n] < 128
            /\ HighBit(v) <= 7 * n
            /\ \A m \in 1..(n - 1) : HighBit(v) > 7 * m
            /\ IsZero(v) => wr.sink = <<0>>
            /\ n > 1 => wr.sink[n] # 0
            /\ v[Len(v)] = 1 => n = (IF vcfg.w = 32 THEN 5 ELSE 10)
            /\ \A t \in VarIntTable : (vcfg.w = 32 /\ v = ToBits(t[1], 32)) => wr.sink = t[2]

\* C16 witness: the negative table vector -8877777 was written in full, over
\* more than one poll.
C16_Witness ==
    /\ vcfg.mode = "roundtrip" /\ vcfg.w = 32 /\ vcfg.orig = ToBits(-8877777, 32)
    /\ wr.res = "Ok" /\ ~wr.short /\ wr.sink = <<175, 146, 226, 251, 15>>
    /\ wr.me = Shr(vcfg.orig, 28)

\* C17: varint size agrees with encode.  size_var_int(v) (size_var_long(v)) lies
\* between 1 and 5 (1 and 10), the writer never has more bytes than that in the
\* sink, and when write_var_int (write_var_long) of v has completed on a sink that
\* took every byte offered, the sink holds exactly size_var_int(v) bytes.
C17_SizeAgreesWithWrite ==
    vcfg.mode = "roundtrip" =>
        /\ SizeVarNum(vcfg.orig) \in 1..MaxVarBytes(vcfg.w)
        /\ ~wr.short => Len(wr.sink) <= SizeVarNum(vcfg.orig)
        /\ (wr.res = "Ok" /\ ~wr.short) => Len(wr.sink) = SizeVarNum(vcfg.orig)

\* C17 witness: a 64-bit negative value was written in ten bytes, and a 32-bit
\* value in one.
C17_Witness ==
    /\ vcfg.mode = "roundtrip" /\ wr.res = "Ok" /\ ~wr.short
    /\ \/ vcfg.w = 64 /\ vcfg.orig[64] = 1 /\ Len(wr.sink) = 10
       \/ vcfg.w = 32 /\ vcfg.orig = ToBits(127, 32) /\ Len(wr.sink) = 1

\* C23: varint truncated input.  On a stream that ends after a proper prefix (the
\* empty one included) of the bytes write_var_int(v) (write_var_long(v)) emits,
\* read_var_int (read_var_long) neither returns a value nor fails otherwise: once
\* it has finished, under any pattern of Pending answers, it has failed with
\* EOF, having taken the whole prefix.
C23_TruncatedIsEof ==
    vcfg.mode = "truncated" =>
        /\ rd.res \in {"New", "Pending", "EOF"}
        /\ rd.res = "EOF" => rd.pos = Len(rd.stream)
        /\ IsPrefix(rd.stream, WireForm(vcfg.orig)) /\ rd.stream # WireForm(vcfg.orig)

\* C23 witness: the first nine of the ten bytes of a negative 64-bit value ended
\* in EOF after a suspension.
C23_Witness ==
    /\ vcfg.mode = "truncated" /\ rd.res = "EOF" /\ rd.suspended
    /\ vcfg.w = 64 /\ vcfg.orig[64] = 1 /\ Len(rd.stream) = 9 /\ rd.pos = 9


\* C28: varint encode reports success only for complete writes.  Whatever the
\* sink answers, a write_var_int / write_var_long that returned Ok has had the
\* sink accept exactly the size_var_int bytes of the value's encoding.
\* (Violated by the code.)
C28_OkMeansComplete ==
    (vcfg.mode = "roundtrip" /\ wr.res = "Ok") =>
        /\ wr.sink = WriteVarNum(vcfg.orig).out
        /\ Len(wr.sink) = SizeVarNum(vcfg.orig)

\* a write of the one-byte encoding of 0 returned Ok with nothing in the sink
OkWithNothingWritten ==
    /\ vcfg.mode = "roundtrip" /\ IsZero(vcfg.orig) /\ wr.res = "Ok" /\ wr.sink = <<>>


\* a raw stream of the longest form: MaxVarBytes(w) - 1 bytes with the
\* continuation bit and a last byte without
LongestForm ==
    /\ vcfg.mode = "raw" /\ Len(rd.stream) = MaxVarBytes(vcfg.w)
    /\ \A i \in 1..(Len(rd.stream) - 1) : rd.stream[i] >= 128
    /\ rd.stream[Len(rd.stream)] < 128
\* the stream with the payload bits of its last byte that fall beyond the width
\* cleared (AND 0x0F for 32 bits, AND 0x01 for 64)
LastByteMasked ==
    [rd.stream EXCEPT ![Len(rd.stream)] = @ % (2 ^ (vcfg.w - 7 * (MaxVarBytes(vcfg.w) - 1)))]
\* bit i of the word spelled by the 7-bit groups of the stream
GroupBit(stream, i) == (stream[(i - 1) \div 7 + 1] \div (2 ^ ((i - 1) % 7))) % 2

\* C29: varint decode truncates rather than rejects excess payload bits.  An
\* input of the longest form (5 bytes for 32 bits, 10 for 64) whose last byte has
\* the continuation bit clear decodes successfully to the low w bits spelled by
\* its 7-bit groups, so it decodes like the same input with the excess bits of
\* the last byte cleared; every byte is shifted by an amount below the width.
C29_ExcessBitsDiscarded ==
    /\ (LongestForm /\ rd.res \notin {"New", "Pending"}) =>
          /\ rd.res = "Ok" /\ rd.pos = Len(rd.stream)
          /\ rd.me.value = [i \in 1..vcfg.w |-> GroupBit(rd.stream, i)]
          /\ rd.me.value = ReadVarNum(vcfg.w, LastByteMasked, 0).me.value
    /\ rd.me.bit_offset > 0 => rd.me.bit_offset - 7 < Len(rd.me.value)
    /\ rd.me.bit_offset = 7 * rd.pos

\* C29 witness: FF FF FF FF 7F decoded to -1 by the 32-bit decoder, and
\* FF FF FF FF 0F decodes to -1 too.
C29_Witness ==
    /\ vcfg.mode = "raw" /\ vcfg.w = 32 /\ rd.stream = <<255, 255, 255, 255, 127>>
    /\ rd.res = "Ok" /\ rd.me.value = ToBits(-1, 32)
    /\ ReadVarNum(32, <<255, 255, 255, 255, 15>>, 0).me.value = ToBits(-1, 32)

(***************************************************************************)
(* Claims about the container delegates.                                   *)
(***************************************************************************)
CodSized == cod.size # NoSize
CodEncoded == cod.enc # NoEnc
CodDecoded == cod.dec # NoDec
IsLimitedSeq(t) == t.d \in {"LimitedVec", "LimitedMap"}
DecodeLabel(t) == IF t.d = "LimitedVec" THEN "decoding vec" ELSE "decoding map"
EncodeLabel(t) == IF t.d = "LimitedVec" THEN "encoding vec" ELSE "encoding map"

\* C3: size agrees with encode for sequences.  For every element delegate and
\* every sequence value, the count Vec<T>::size reports equals the number of
\* bytes Vec<T>::encode writes.  (Violated by the code.)
C3_VecSizeAgreesWithEncode ==
    (cod.mode = "value" /\ cod.t.d = "Vec" /\ CodSized /\ cod.enc.res = Ok) =>
        cod.size.n = Len(cod.enc.out)

\* the sizes the elements of the array report
ArrayElemSizes == [i \in 1..Len(cod.v) |-> SizeT(cod.t.t, cod.v[i])]
RECURSIVE SumCounts(_)
SumCounts(sizes) == IF sizes = <<>> THEN 0 ELSE Head(sizes).n + SumCounts(Tail(sizes))

\* C19: fixed-length array size.  <[T; N]>::size is Constant(N * c) only when each
\* of the N elements reports Constant(c); when they do not all report Constant(c)
\* it is Dynamic of the sum of the N element sizes; and in both cases its count
\* is the number of bytes <[T; N]>::encode writes.  (Violated by the code.)
C19_ArraySize ==
    (cod.mode = "value" /\ cod.t.d = "Array" /\ CodSized /\ cod.enc.res = Ok) =>
        LET AllConstant(c) == \A i \in 1..cod.t.n : ArrayElemSizes[i] = Constant(c)
        IN  /\ cod.size.k = "Constant" =>
                  \E c \in 0..8 : AllConstant(c) /\ cod.size = Constant(cod.t.n * c)
            /\ ~(\E c \in 0..8 : AllConstant(c)) =>
                  cod.size = Dynamic(SumCounts(ArrayElemSizes))
            /\ cod.size.n = Len(cod.enc.out)

\* C20: optional value framing.  Maybe<T>::encode writes one presence byte, 1 for
\* Some and 0 for None, followed by T's encoding of the value only when present:
\* Some(10) over i32 gives 01 00 00 00 0A and None gives 00.  Maybe<T>::decode
\* on a presence byte 0 returns None having consumed that byte only, whatever
\* follows, and on any other presence byte decodes a T from the next byte on and
\* returns Some of it (or T's failure).
C20_MaybeFraming ==
    /\ (cod.mode = "value" /\ cod.t.d = "Maybe" /\ CodEncoded) =>
          /\ cod.v.some =>
                /\ cod.enc.out = <<1>> \o EncodeT(cod.t.t, cod.v.v).out
                /\ cod.enc.res = EncodeT(cod.t.t, cod.v.v).res
          /\ ~cod.v.some => (cod.enc.out = <<0>> /\ cod.enc.res = Ok)
          /\ (cod.t = Maybe(I32) /\ cod.v = Some(10)) => cod.enc.out = <<1, 0, 0, 0, 10>>
    /\ (cod.dt.d = "Maybe" /\ CodDecoded /\ Len(cod.stream) >= 1) =>
          IF cod.stream[1] = 0
          THEN cod.dec.res = Ok /\ cod.dec.val = None /\ cod.dec.pos = 1
          ELSE LET r == DecodeT(cod.dt.t, cod.stream, 1, cod.host)
               IN  /\ cod.dec.res = r.res /\ cod.dec.pos = r.pos
                   /\ r.res = Ok => cod.dec.val = Some(r.val)

\* C20 witness: the presence byte 2 in front of 00 00 00 0A decoded to Some(10)
\* over i32.
C20_Witness ==
    /\ cod.mode = "raw" /\ cod.dt = Maybe(I32) /\ cod.stream = <<2, 0, 0, 0, 10>>
    /\ cod.dec.res = Ok /\ cod.dec.val = Some(10) /\ cod.dec.pos = 5

\* a run that decodes a mapping from a stream carrying the pairs cod.v
PairRun ==
    /\ cod.mode = "raw" /\ cod.dt.d \in {"HashMap", "LimitedMap"}
    /\ cod.decl = Len(cod.v)
    /\ IsPrefix(EncodeLen(cod.decl) \o PairBytes(cod.v), cod.stream)

\* C21: mapping decode is permissive on duplicates.  On a stream declaring n
\* pairs and carrying them (n at most N for LimitedMap), HashMap and LimitedMap
\* decode succeed whether or not a key repeats, having decoded n keys and n
\* values and consumed the length prefix and the n pairs and no more; the map
\* returned binds exactly the keys on the wire, each once and to the value of
\* its last occurrence, and so has at most n entries.
C21_LastWriteWins ==
    (PairRun /\ CodDecoded /\ (cod.dt.d = "LimitedMap" => cod.decl <= cod.dt.n)) =>
        LET n == cod.decl
            Last(k) == CHOOSE i \in 1..n :
                          cod.v[i][1] = k /\ \A j \in (i + 1)..n : cod.v[j][1] # k
        IN  /\ cod.dec.res = Ok
            /\ cod.dec.elems = 2 * n
            /\ cod.dec.pos = Len(EncodeLen(n) \o PairBytes(cod.v))
            /\ Len(cod.dec.val) <= n
            /\ \A i, j \in 1..Len(cod.dec.val) :
                  i # j => cod.dec.val[i][1] # cod.dec.val[j][1]
            /\ {cod.dec.val[i][1] : i \in 1..Len(cod.dec.val)} = {cod.v[i][1] : i \in 1..n}
            /\ \A i \in 1..Len(cod.dec.val) :
                  cod.dec.val[i][2] = cod.v[Last(cod.dec.val[i][1])][2]

\* C21 witness: the key 1 came twice with another key between, and the map
\* returned holds its second value.
C21_Witness ==
    /\ PairRun /\ cod.dt = HashMap(VarInt, U8) /\ cod.v = <<<<1, 7>>, <<300, 7>>, <<1, 9>>>>
    /\ cod.dec.res = Ok /\ Len(cod.dec.val) = 2
    /\ \E i \in 1..2 : cod.dec.val[i] = <<1, 9>>

\* C22: no over-read.  For two values v1 and v2 of a delegate encoded one after
\* the other, the first decode returns v1 and leaves the stream at the first
\* byte of encode(v2), and the second decode returns v2 and leaves it at the
\* end; and a successful decode of a value v has consumed exactly size(v) bytes.
\* (Violated by the code.)
C22_NoOverRead ==
    /\ (cod.mode = "pair" /\ CodDecoded) =>
          /\ cod.dec.res = Ok /\ cod.dec.val = cod.v
          /\ cod.dec.pos = Len(cod.enc.out)
          /\ cod.dec2 # NoDec =>
                /\ cod.dec2.res = Ok /\ cod.dec2.val = cod.v2
                /\ cod.dec2.pos = Len(cod.stream)
    /\ (cod.mode \in {"value", "pair"} /\ CodDecoded /\ CodSized /\ cod.dec.res = Ok
            /\ cod.dt = cod.t) =>
          cod.dec.pos = cod.size.n

\* C22 without its last clause: the two decodes return the two values and stop
\* where each value's bytes end
NoOverReadOfPairs ==
    (cod.mode = "pair" /\ CodDecoded) =>
        /\ cod.dec.res = Ok /\ cod.dec.val = cod.v
        /\ cod.dec.pos = Len(cod.enc.out)
        /\ cod.dec2 # NoDec =>
              /\ cod.dec2.res = Ok /\ cod.dec2.val = cod.v2
              /\ cod.dec2.pos = Len(cod.stream)

\* C4: the size-limited sequence and mapping check the limit first.  A declared
\* (decode) or actual (encode) length above N fails with LimitExceeded(N, length,
\* label); the decode has then consumed the length prefix only, decoded no
\* element and requested no storage, the encode has written nothing.  A length
\* equal to N is not rejected.
C4_LimitCheckedFirst ==
    /\ (CodDecoded /\ IsLimitedSeq(cod.dt) /\ cod.decl > cod.dt.n) =>
          /\ cod.dec.res = LimitExceeded(cod.dt.n, cod.decl, DecodeLabel(cod.dt))
          /\ cod.dec.pos = Len(WireForm(ToBits(cod.decl, 32)))
          /\ cod.dec.elems = 0
          /\ cod.dec.alloc = <<>>
    /\ (CodDecoded /\ IsLimitedSeq(cod.dt) /\ cod.decl = cod.dt.n) =>
          cod.dec.res.e # "LimitExceeded"
    /\ (CodEncoded /\ IsLimitedSeq(cod.t) /\ cod.mode = "value" /\ Len(cod.v) > cod.t.n) =>
          /\ cod.enc.res = LimitExceeded(cod.t.n, Len(cod.v), EncodeLabel(cod.t))
          /\ cod.enc.out = <<>>
    /\ (CodEncoded /\ IsLimitedSeq(cod.t) /\ cod.mode = "value" /\ Len(cod.v) = cod.t.n) =>
          cod.enc.res = Ok

\* C4 witness: a sequence of LimitN + 1 VarInts was encoded without limit and its
\* decode against the limit failed after the one-byte prefix.
C4_Witness ==
    /\ cod.mode = "value" /\ cod.t = Vec(VarInt) /\ cod.dt = LimitedVec(VarInt, LimitN)
    /\ Len(cod.v) = LimitN + 1 /\ cod.enc.res = Ok /\ Len(cod.stream) > LimitN + 1
    /\ cod.dec.res = LimitExceeded(LimitN, LimitN + 1, "decoding vec")
    /\ cod.dec.pos = 1

\* C5: size-limited decode never allocates past its limit and never aborts.  For
\* every declared length the prefix can carry, the decode of LimitedVec,
\* LimitedMap and LimitedString ends in a typed failure or a value, and the
\* storage it requests for the container is at most N.  (Violated by the code.)
C5_LimitedDecodeAllocBounded ==
    (CodDecoded /\ cod.dt.d \in {"LimitedVec", "LimitedMap", "LimitedString"}) =>
        /\ cod.dec.res.e # "Panic"
        /\ cod.dec.alloc # <<>> => ~WordLess(ToBits(cod.dt.n, 64), cod.dec.alloc[1])

(***************************************************************************)
(* Claims about the string delegates, checked under SpecCodec.             *)
(***************************************************************************)
StrEncoded(t) == cod.mode = "value" /\ CodEncoded /\ cod.t.d = t
StrDecoded(t) == CodDecoded /\ cod.dt.d = t

\* what C12 says of a length above N, in both directions, and of a declared
\* length of N on decode
C12_AboveLimit ==
    /\ (StrEncoded("LimitedString") /\ Len(cod.v) > cod.t.n) =>
          /\ cod.enc.res = LimitExceeded(cod.t.n, Len(cod.v), "encoding string")
          /\ cod.enc.out = <<>>
    /\ (StrDecoded("LimitedString") /\ cod.decl > cod.dt.n) =>
          /\ cod.dec.res = LimitExceeded(cod.dt.n, cod.decl, "decoding string")
          /\ cod.dec.pos = Len(WireForm(ToBits(cod.decl, 32)))
          /\ cod.dec.alloc = <<>>
    /\ (StrDecoded("LimitedString") /\ cod.decl = cod.dt.n) =>
          cod.dec.res.e # "LimitExceeded"

\* C12 as stated: LimitedString<N> refuses a length above N on encode (nothing
\* written) and on decode (only the prefix read) with LimitExceeded(N, len, label),
\* and accepts a length of exactly N in both directions.
C12_Original ==
    /\ C12_AboveLimit
    /\ (StrEncoded("LimitedString") /\ Len(cod.v) = cod.t.n) => cod.enc.res = Ok

\* C12, amended: as stated, except that encode accepts a length of exactly N only
\* when N is at most the default cap; a length up to N but above the default cap
\* fails on encode with LimitExceeded(131068, len, "encoding string"), nothing
\* written.
C12_LimitedStringBounds ==
    /\ C12_AboveLimit
    /\ (StrEncoded("LimitedString") /\ Len(cod.v) = cod.t.n /\ cod.t.n <= STRING_DEFAULT_CAP)
          => cod.enc.res = Ok
    /\ (StrEncoded("LimitedString") /\ Len(cod.v) <= cod.t.n
            /\ Len(cod.v) > STRING_DEFAULT_CAP) =>
          /\ cod.enc.res = LimitExceeded(STRING_DEFAULT_CAP, Len(cod.v), "encoding string")
          /\ cod.enc.out = <<>>

\* a string one byte over the limit was refused by encode, nothing written
C12_Witness ==
    /\ StrEncoded("LimitedString") /\ cod.t.n = LimitN /\ Len(cod.v) = LimitN + 1
    /\ cod.enc.res = LimitExceeded(LimitN, LimitN + 1, "encoding string")
    /\ cod.stream = <<>>

\* C13: String and LimitedString<N>, for every N, refuse on encode and on decode
\* every length above the default cap of 131068 bytes with LimitExceeded, before
\* the buffer is allocated or written.
C13_DefaultCapBothWays ==
    /\ (cod.mode = "value" /\ CodEncoded /\ cod.t.d \in {"String", "LimitedString"}
            /\ Len(cod.v) > STRING_DEFAULT_CAP) =>
          cod.enc.res.e = "LimitExceeded" /\ cod.enc.out = <<>>
    /\ (CodDecoded /\ cod.dt.d \in {"String", "LimitedString"}
            /\ cod.decl > STRING_DEFAULT_CAP) =>
          cod.dec.res.e = "LimitExceeded" /\ cod.dec.alloc = <<>>

(***************************************************************************)
(* Claims about the tree codec, checked under SpecNbt.                     *)
(***************************************************************************)
NbtDone == nbt.pc = "done"
Unlimited == IsZero(nbt.io.acc.limit)

\* C2: for every Tag t, load_tag(t.get_tag_bit(), depth 0, limit 0) on the bytes
\* written by write_tag(t) returns a Tag equal to t, and size_tag(t) is the number
\* of bytes written.
C2_TagRoundTrip ==
    nbt.mode = "value" =>
        /\ (NbtDone /\ Unlimited) => (nbt.res = Ok /\ TagEq(nbt.val, nbt.tag))
        /\ (nbt.written /\ nbt.size # -1) => nbt.size = Len(nbt.stream)

\* C9 as stated: a chain of DepthLimit + 1 = 513 nested containers fails with
\* ComplexTag.
C9_Original ==
    (nbt.mode = "chain" /\ NbtDone /\ nbt.levels = DepthLimit + 1)
        => nbt.res = Err("ComplexTag")

\* C9, amended: a chain of nested List/Compound nodes, the outermost decoded at
\* depth 0 and with no byte limit, fails with ComplexTag exactly when it is more
\* than DepthLimit + 1 = 513 levels deep, and then the decoder has consumed nothing
\* beyond the head of level 513; a chain of up to 513 levels decodes to a Tag and
\* consumes the whole stream.
C9_DepthGuardThreshold ==
    (nbt.mode = "chain" /\ NbtDone /\ Unlimited) =>
        IF nbt.levels <= DepthLimit + 1
        THEN nbt.res = Ok /\ nbt.io.pos = Len(nbt.stream)
        ELSE /\ nbt.res = Err("ComplexTag")
             /\ nbt.io.pos = Len(ChainHeads(nbt.pattern, nbt.levels, DepthLimit + 1))

\* a chain of 514 levels has been refused
C9_Witness ==
    /\ nbt.mode = "chain" /\ NbtDone /\ nbt.levels = DepthLimit + 2 /\ Unlimited
    /\ nbt.res = Err("ComplexTag")

\* a u64 word that is an i32 widened with its sign, and that i32
IsSext(word) == \A i \in 33..64 : word[i] = word[32]
Signed(word) == ToI32(SubSeq(word, 1, 32))

\* the debit d = [before, bytes, res, after] against the limit, in numbers: bytes
\* is x >= 0 or 2^64 + x for x < 0, and before is b >= 0
DebitRight(d, limit) ==
    LET L == Signed(limit)
        b == Signed(d.before)
        x == Signed(d.bytes)
    IN  /\ IsSext(limit) /\ IsSext(d.before) /\ IsSext(d.bytes) /\ b >= 0 /\ b <= L
        /\ IF x < 0 /\ b + x >= 0
           THEN d.res = Err("AccounterOverflow") /\ d.after = d.before
           ELSE IF x < 0 \/ x > L - b
           THEN /\ d.res.e = "TagTooBig" /\ d.res.expected = limit
                /\ d.after = d.before
           ELSE d.res = Ok /\ d.after = U64(b + x)

\* C10: with a nonzero limit L the running total never exceeds L; a debit that
\* would pass L fails with TagTooBig, one whose 64-bit sum overflows fails with
\* AccounterOverflow, a failed debit leaves the total unchanged and ends the
\* decode with that error, a debit landing exactly on L is accepted; a Tag that
\* was decoded weighs at most L.
C10_BudgetGuard ==
    ~Unlimited =>
        LET acc == nbt.io.acc
            log == nbt.io.log
        IN  /\ ~WordLess(acc.limit, acc.current)
            /\ \A i \in 1..Len(log) :
                  /\ DebitRight(log[i], acc.limit)
                  /\ log[i].res # Ok =>
                        /\ i = Len(log) /\ NbtDone /\ nbt.res = log[i].res
                        /\ acc.current = log[i].before
            /\ (NbtDone /\ nbt.res = Ok /\ nbt.mode \in {"value", "raw"}) =>
                  /\ Signed(acc.current) = Weight(nbt.val)
                  /\ Weight(nbt.val) <= Signed(acc.limit)

\* a debit has landed exactly on a nonzero limit and was accepted
C10_Witness ==
    /\ ~Unlimited
    /\ \E i \in 1..Len(nbt.io.log) :
          /\ nbt.io.log[i].res = Ok
          /\ nbt.io.log[i].after = nbt.io.acc.limit
          /\ ~IsZero(nbt.io.log[i].bytes)

\* C11: a limit of 0 disables the budget guard: every debit, whatever its amount,
\* succeeds and leaves the running total at 0, and no tree decode ends with
\* TagTooBig or AccounterOverflow.
C11_ZeroLimitDisables ==
    Unlimited =>
        /\ IsZero(nbt.io.acc.current)
        /\ \A i \in 1..Len(nbt.io.log) :
              /\ nbt.io.log[i].res = Ok
              /\ IsZero(nbt.io.log[i].before) /\ IsZero(nbt.io.log[i].after)
        /\ nbt.res.e \notin {"TagTooBig", "AccounterOverflow"}

\* an unlimited decode was debited a count of -1 widened to u64 (2^64 - 1)
C11_Witness ==
    /\ Unlimited /\ nbt.mode = "raw"
    /\ \E i \in 1..Len(nbt.io.log) :
          nbt.io.log[i].res = Ok /\ \A k \in 1..64 : nbt.io.log[i].bytes[k] = 1

(***************************************************************************)
(* Claims about EnsuredCompoundTag, checked under SpecNbt.                 *)
(***************************************************************************)
DocRun == nbt.mode \in DocModes
\* load_tag is entered from EnsuredCompoundTag::decode
DocAtRoot == DocRun /\ nbt.pc = "call" /\ nbt.stack = <<>>
\* the length the root name's prefix declares
RootNameLen == 256 * nbt.stream[2] + nbt.stream[3]
\* Option<Tag> equality
OptEq(a, b) == a.some = b.some /\ (a.some => TagEq(a.v, b.v))

\* what C14 says of encode, of size and of decode up to the root name
C14_Framing ==
    /\ (nbt.mode = "doc" /\ nbt.written) =>
          nbt.stream = IF nbt.opt.some THEN <<10, 0, 0>> \o write_tag(nbt.opt.v) ELSE <<0>>
    /\ (nbt.mode = "doc" /\ nbt.dsize # NoSize) =>
          nbt.dsize = IF nbt.opt.some THEN Dynamic(3 + size_tag(nbt.opt.v)) ELSE Constant(1)
    /\ (DocRun /\ NbtDone /\ nbt.stream # <<>> /\ nbt.stream[1] = 0) =>
          nbt.res = Ok /\ ~nbt.dval.some /\ nbt.io.pos = 1
    /\ (DocRun /\ NbtDone /\ nbt.stream # <<>> /\ nbt.stream[1] \notin {0, 10}) =>
          nbt.res = [e |-> "InvalidTagBit", bit |-> nbt.stream[1]] /\ nbt.io.pos = 1
    /\ DocAtRoot =>
          /\ nbt.stream[1] = 10 /\ nbt.call = [bit |-> 10, depth |-> 0]
          /\ nbt.io.pos = 3 + RootNameLen
    /\ (DocRun /\ NbtDone /\ nbt.res = Ok /\ nbt.stream[1] = 10) =>
          nbt.dval.some /\ get_tag_bit(nbt.dval.v) = 10

\* C14 as stated: the framing, and the Compound is decoded with a fresh
\* accountant (running total 0).
C14_Original ==
    /\ C14_Framing
    /\ DocAtRoot => IsZero(nbt.io.acc.current)

\* C14, amended: the framing, and the Compound is decoded with the accountant
\* { limit: LIMIT, current: 0 } that was created before the root name was read
\* and has been debited the root name's length, so with a nonzero LIMIT its
\* running total when the Compound decode starts is that length.
C14_DocumentConvention ==
    /\ C14_Framing
    /\ DocAtRoot =>
          nbt.io.acc.current = IF Unlimited THEN U64(0) ELSE U64(RootNameLen)
    /\ (DocRun /\ NbtDone /\ nbt.res = Ok /\ nbt.stream[1] = 10 /\ ~Unlimited) =>
          Signed(nbt.io.acc.current) = RootNameLen + Weight(nbt.dval.v)

\* a document with the root name "ab" was decoded under a limit its Compound and
\* its root name together reach exactly
C14_Witness ==
    /\ nbt.mode = "docraw" /\ NbtDone /\ nbt.res = Ok /\ nbt.dval.some
    /\ RootNameLen = 2 /\ ~Unlimited
    /\ nbt.io.acc.current = nbt.io.acc.limit

\* C15: for every Option<Tag> x, decoding the bytes of EnsuredCompoundTag::encode(x)
\* with limit 0 returns a value equal to x, and size(x) is the number of bytes
\* written.
C15_DocRoundTrip ==
    nbt.mode = "doc" =>
        /\ (NbtDone /\ Unlimited) => (nbt.res = Ok /\ OptEq(nbt.dval, nbt.opt))
        /\ (nbt.written /\ nbt.dsize # NoSize) => nbt.dsize.n = Len(nbt.stream)

(***************************************************************************)
(* Claims about the size algebra.                                          *)
(***************************************************************************)
\* the usizes x and y add up to at most usize::MAX (usize::MAX - x is -x - 1 for
\* an x held as a negative integer; two such x exceed it, two small ones do not)
SumFits(x, y) ==
    CASE x >= 0 /\ y >= 0 -> TRUE
      [] x < 0 /\ y >= 0 -> y <= -x - 1
      [] x >= 0 /\ y < 0 -> x <= -y - 1
      [] OTHER -> FALSE

\* the sums a + b of two sizes computed so far: <<result, a, b>>
SumsDone ==
    {t \in {<<alg.ab, alg.a, alg.b>>, <<alg.ba, alg.b, alg.a>>, <<alg.bc, alg.b, alg.c>>,
            <<alg.ab_c, alg.ab, alg.c>>, <<alg.a_bc, alg.a, alg.bc>>} : t[1] # NoSize}

\* Constant when both operands are, Dynamic otherwise
SumKind(x, y) == IF x.k = "Constant" /\ y.k = "Constant" THEN "Constant" ELSE "Dynamic"

\* C18: size algebra.  Every a + b is Constant(x + y) for two Constants and
\* Dynamic of the sum of the counts otherwise, every a + n is
\* Dynamic(count(a) + n), the count is always the arithmetic sum of the operands'
\* counts, and the sum is commutative and associative.  (Violated by the code.)
C18_SizeAlgebra ==
    /\ \A t \in SumsDone :
          /\ t[1] = [k |-> SumKind(t[2], t[3]), n |-> t[2].n + t[3].n]
          /\ SumFits(t[2].n, t[3].n)
    /\ alg.an # NoSize => (alg.an = Dynamic(alg.a.n + alg.n) /\ SumFits(alg.a.n, alg.n))
    /\ alg.ba # NoSize => alg.ba = alg.ab
    /\ alg.a_bc # NoSize => alg.a_bc = alg.ab_c

\* what the additions do give: the arithmetic sum in the claimed variant while
\* the counts add up to at most usize::MAX; beyond that a panic in a build with
\* overflow checks and the sum modulo 2^64 in a build without; the same either
\* way round and however the three sizes are grouped
SumsAsBuilt ==
    /\ \A t \in SumsDone :
          IF alg.checks /\ ~SumFits(t[2].n, t[3].n)
          THEN t[1] = SizePanic
          ELSE t[1] = [k |-> SumKind(t[2], t[3]), n |-> t[2].n + t[3].n]
    /\ alg.an # NoSize =>
          IF alg.checks /\ ~SumFits(alg.a.n, alg.n)
          THEN alg.an = SizePanic
          ELSE alg.an = Dynamic(alg.a.n + alg.n)
    /\ alg.ba # NoSize => alg.ba = alg.ab
    /\ alg.a_bc # NoSize => alg.a_bc = alg.ab_c

\* Constant(usize::MAX) + Constant(1) panicked, or gave Constant(0)
SumOverflowed ==
    /\ alg.a = Constant(-1) /\ alg.b = Constant(1)
    /\ alg.ab = (IF alg.checks THEN SizePanic ELSE Constant(0))

(***************************************************************************)
(* Claims about the order of the tree codec's reads and writes.            *)
(***************************************************************************)
RECURSIVE EntryTriples(_)
\* the entries in sequence order, each as kind byte, name and payload
EntryTriples(map) ==
    IF map = <<>> THEN <<>>
    ELSE <<Head(map)[2][1]>> \o write_string(Head(map)[1]) \o write_tag(Head(map)[2])
         \o EntryTriples(Tail(map))

\* the entries in front of the first one whose kind byte is 0
UpToEnd(map) ==
    LET ends == {i \in 1..Len(map) : map[i][2][1] = 0}
    IN  IF ends = {} THEN map
        ELSE SubSeq(map, 1, (CHOOSE i \in ends : \A j \in ends : i <= j) - 1)

\* a value run on a Compound whose entries hold Shorts, Lists of Shorts, empty
\* Compounds and Ends under names that may repeat
EntryRun ==
    /\ nbt.mode = "value" /\ nbt.tag[1] = 10
    /\ \A i \in 1..Len(nbt.tag[2]) :
          nbt.tag[2][i][1] \in {Str_abc, Str_def} /\ nbt.tag[2][i][2] \in EntryValues

\* C24: Compound wire order.  write_tag of a Compound writes the entries in
\* sequence order, each as kind byte of the value, name and payload, and then one
\* 0 byte, which is all an empty Compound writes.  load_tag of a Compound leaves
\* its loop only on a kind byte 0 and decodes an entry only after a kind byte
\* other than 0; it returns the entries in the order of the wire, those in front
\* of the first kind byte 0, with entries of the same name kept apart.
C24_CompoundWireOrder ==
    /\ (nbt.mode = "value" /\ nbt.tag[1] = 10 /\ nbt.written) =>
          /\ nbt.stream = EntryTriples(nbt.tag[2]) \o <<0>>
          /\ nbt.tag[2] = <<>> => nbt.stream = <<0>>
    /\ (nbt.pc = "ret" /\ nbt.ret[1] = 10) => nbt.stream[nbt.io.pos] = 0
    /\ (nbt.pc = "call" /\ nbt.stack # <<>> /\ Top.f = "compound") => nbt.call.bit # 0
    /\ \A i \in 1..Len(nbt.stack) :
          nbt.stack[i].f = "compound" =>
              \A j \in 1..Len(nbt.stack[i].v) : nbt.stack[i].v[j][2][1] # 0
    /\ (EntryRun /\ NbtDone /\ Unlimited) =>
          /\ nbt.res = Ok
          /\ TagEq(nbt.val, CompoundTag(UpToEnd(nbt.tag[2])))

\* C24 witness: a Compound with two entries of the name "abc" came back with
\* both, in order.
C24_Witness ==
    /\ EntryRun /\ NbtDone /\ nbt.res = Ok
    /\ nbt.tag = CompoundTag(<<<<Str_abc, TagList(2, <<TagShort(10), TagShort(20)>>)>>,
                               <<Str_abc, TagShort(15)>>>>)
    /\ nbt.val = nbt.tag

\* a load_tag of a List or Compound is about to run with a depth counter above
\* DepthLimit
DeepNode == nbt.pc = "call" /\ nbt.call.bit \in {9, 10} /\ nbt.call.depth > DepthLimit

\* in every state: the root is decoded at depth 0, every child at its parent's
\* depth plus 1, and no List or Compound deeper than DepthLimit has been entered
DepthOrder ==
    /\ (nbt.pc = "call" /\ nbt.stack = <<>>) => nbt.call.depth = 0
    /\ (nbt.pc = "call" /\ nbt.stack # <<>>) => nbt.call.depth = Top.depth + 1
    /\ \A i \in 1..Len(nbt.stack) :
          nbt.stack[i].depth = i - 1 /\ nbt.stack[i].depth <= DepthLimit

\* the fixed debit a List (37) or a Compound (48) makes on entry does not fit
\* the nonzero limit
EntryDebitRefused ==
    LET d == IF nbt.call.bit = 9 THEN 37 ELSE 48
    IN  ~Unlimited /\ Signed(nbt.io.acc.current) + d > Signed(nbt.io.acc.limit)

\* C25 as stated: a List or Compound entered with a depth counter above 512
\* fails with ComplexTag before any of its bytes is read; the root is decoded at
\* depth 0 and each child at its parent's depth plus 1.
C25_Original ==
    [][/\ DepthOrder'
       /\ DeepNode => /\ nbt'.pc = "done" /\ nbt'.res = Err("ComplexTag")
                      /\ nbt'.io.pos = nbt.io.pos]_vars

\* C25, amended: depth guard precedes reading.  A List or Compound entered with a
\* depth counter above 512 fails before any of its bytes is read: with ComplexTag,
\* or, when its entry debit (37 for a List, 48 for a Compound), which is made
\* first, does not fit a nonzero limit, with TagTooBig.  So no byte of a List or
\* Compound is read at a depth above 512; the root is decoded at depth 0 and each
\* child at its parent's depth plus 1.
C25_DepthGuardFirst ==
    [][/\ DepthOrder'
       /\ DeepNode => /\ nbt'.pc = "done" /\ nbt'.io.pos = nbt.io.pos
                      /\ IF EntryDebitRefused
                         THEN nbt'.res.e = "TagTooBig"
                         ELSE nbt'.res = Err("ComplexTag")]_vars

\* C25 witness: a chain one level too deep was refused with ComplexTag under a
\* nonzero limit, the stream left at the end of the head of level 513.
C25_Witness ==
    /\ nbt.mode = "chain" /\ nbt.levels = DepthLimit + 2 /\ ~Unlimited /\ NbtDone
    /\ nbt.res = Err("ComplexTag")
    /\ nbt.io.pos = Len(ChainHeads(nbt.pattern, nbt.levels, DepthLimit + 1))


(***************************************************************************)
(* Claims about the debit for a declared count.                            *)
(***************************************************************************)
\* the count declared by the stream of a raw run
RawCount ==
    LET k == IF nbt.bit = 9 THEN 1 ELSE 0
    IN  ToI32(FromBE(SubSeq(nbt.stream, k + 1, k + 4)))

\* the step of a raw run with a nonzero limit that read the count of a List,
\* IntArray or LongArray has just run: its first debit, the fixed one, was
\* accepted from a total of 0
CountStepDone ==
    /\ nbt.mode = "raw" /\ nbt.bit \in {9, 11, 12} /\ ~Unlimited
    /\ Len(nbt.io.log) >= 1
    /\ IsZero(nbt.io.log[1].before) /\ nbt.io.log[1].res = Ok

\* C26: count debits do not wrap.  Decoding a List, IntArray or LongArray under a
\* nonzero limit, a declared count n >= 0 is debited as the true product 4 * n
\* (8 * n for a LongArray) before the element buffer is requested, and a negative
\* n is rejected with a budget error.  (Violated by the code.)
C26_CountDebitsDoNotWrap ==
    CountStepDone =>
        IF RawCount >= 0
        THEN /\ Len(nbt.io.log) >= 2
             /\ nbt.io.log[2].bytes = Shl(ToBits(RawCount, 64), IF nbt.bit = 12 THEN 3 ELSE 2)
        ELSE nbt.pc = "done" /\ nbt.res.e \in {"TagTooBig", "AccounterOverflow"}

\* the counts whose product fits an i32 are debited as claimed
CountDebitsWithinI32 ==
    (CountStepDone /\ RawCount >= 0
       /\ RawCount <= I32Max \div (IF nbt.bit = 12 THEN 8 ELSE 4)) =>
        /\ Len(nbt.io.log) >= 2
        /\ nbt.io.log[2].bytes = Shl(ToBits(RawCount, 64), IF nbt.bit = 12 THEN 3 ELSE 2)

\* a buffer for 2^30 elements was requested after a debit of 0 for the count
WrappedDebitAccepted ==
    /\ CountStepDone /\ RawCount = 1073741824 /\ ~nbt.checks
    /\ Len(nbt.io.log) = 2 /\ IsZero(nbt.io.log[2].bytes) /\ nbt.io.log[2].res = Ok
    /\ nbt.res \in {Err("AllocError"), Err("IoError"), NoTagRes}


(***************************************************************************)
(* Claims about a failing element of a container.                          *)
(***************************************************************************)
ContainerKinds == {"Vec", "LimitedVec", "HashMap", "LimitedMap", "Array", "Maybe"}
\* what a container does before its first element: where the elements start,
\* how many element decodes it asks for, and whether it gets that far (declared
\* counts above 300 are left aside)
ContainerHead(dt, stream) ==
    CASE dt.d \in {"Vec", "LimitedVec", "HashMap", "LimitedMap"} ->
           LET l == DecodeVarInt(stream, 0)
               count == IF l.res = Ok /\ l.val >= 0 /\ l.val <= 300 THEN l.val ELSE -1
           IN  [ok |-> /\ l.res = Ok /\ count >= 0
                       /\ dt.d \in {"LimitedVec", "LimitedMap"} => count <= dt.n,
                pos |-> l.pos,
                n |-> IF dt.d \in {"HashMap", "LimitedMap"} THEN 2 * count ELSE count]
      [] dt.d = "Array" -> [ok |-> TRUE, pos |-> 0, n |-> dt.n]
      [] dt.d = "Maybe" -> [ok |-> Len(stream) >= 1 /\ stream[1] # 0, pos |-> 1, n |-> 1]
\* the delegate of the i-th element decode of a container
ElemType(dt, i) ==
    IF dt.d \in {"HashMap", "LimitedMap"} THEN (IF i % 2 = 1 THEN dt.kt ELSE dt.vt)
    ELSE dt.t
RECURSIVE ElemWalk(_, _, _, _, _)
\* the element decodes i..n one after the other on the wire from pos, up to the
\* first that fails: its error, where it stopped and its index, or Ok, the
\* position after the n-th and n
ElemWalk(dt, stream, pos, i, n) ==
    IF i > n THEN [res |-> Ok, pos |-> pos, i |-> n]
    ELSE LET r == DecodeT(ElemType(dt, i), stream, pos, cod.host)
         IN  IF r.res # Ok THEN [res |-> r.res, pos |-> r.pos, i |-> i]
             ELSE ElemWalk(dt, stream, r.pos, i + 1, n)

\* a delegate container returns the error of its first failing element, with no
\* value, having started no element decode after it and read nothing more
DelegateFailurePropagates ==
    (cod.dec # NoDec /\ cod.dt.d \in ContainerKinds /\ ContainerHead(cod.dt, cod.stream).ok) =>
        LET h == ContainerHead(cod.dt, cod.stream)
            w == ElemWalk(cod.dt, cod.stream, h.pos, 1, h.n)
        IN  /\ cod.dec.res = w.res /\ cod.dec.pos = w.pos /\ cod.dec.elems = w.i
            /\ w.res # Ok => cod.dec.val = <<>>

\* a step of the tree decoder inside a List or Compound that fails ends the
\* whole decode with that step's error, without a Tag and with nothing read
\* after the failure; a decode that has ended takes no further step
TagFailurePropagates ==
    /\ (nbt.pc = "call" /\ nbt.stack # <<>> /\ nbt.call.bit \in LeafBits
          /\ LoadLeafTag(nbt.stream, nbt.call.bit, StepIo, nbt.checks).res # Ok) =>
            LET r == LoadLeafTag(nbt.stream, nbt.call.bit, StepIo, nbt.checks)
            IN  /\ nbt'.pc = "done" /\ nbt'.res = r.res /\ nbt'.io.pos = r.io.pos
                /\ nbt'.val = TagEnd /\ nbt'.dval = None /\ nbt'.stack = <<>>
    /\ (nbt.pc = "call" /\ nbt.stack # <<>> /\ nbt.call.bit \notin 0..12) =>
            /\ nbt'.pc = "done" /\ nbt'.res = [e |-> "InvalidTagBit", bit |-> nbt.call.bit]
            /\ nbt'.io.pos = nbt.io.pos /\ nbt'.val = TagEnd /\ nbt'.stack = <<>>
    /\ (nbt'.pc = "done" /\ nbt'.res # Ok) => (nbt'.val = TagEnd /\ nbt'.dval = None)
    /\ nbt.pc = "done" => nbt' = nbt
    /\ nbt'.io.pos >= nbt.io.pos \/ nbt'.pc = "idle"

\* C27: failure propagation in containers.  When the decode of the i-th element
\* of a Vec, LimitedVec, HashMap, fixed array, Maybe, tag List or tag Compound
\* fails, the container's decode returns that error and no value, and decodes no
\* element after the i-th; the elements are decoded in wire order.
C27_FailurePropagates ==
    [] DelegateFailurePropagates /\ [][TagFailurePropagates]_vars

\* C27 witness: a Vec<VarInt> of two declared elements whose second element is
\* too large failed with that element's error where the element stopped.
C27_Witness ==
    /\ cod.mode = "elems" /\ cod.dt = Vec(VarInt)
    /\ cod.stream = <<2, 7, 255, 255, 255, 255, 255, 1, 7>>
    /\ cod.dec.res = Err("VarNumTooLarge") /\ cod.dec.elems = 2 /\ cod.dec.val = <<>>


(***************************************************************************)
(* Claims that compare decodes of one stream under several limits.         *)
(***************************************************************************)
\* the limits a decode under limit l is compared with: 0 and the limits from l up
LimitsFrom(l) == {0} \cup {m \in DocRawLimits \cup {l + 1, l + 1000} : m >= l}
BudgetErrors == {"TagTooBig", "AccounterOverflow"}

\* EnsuredCompoundTag::decode as a function of the stream and the limit gives
\* what the run of the decoder gave
DecodeIsFunction ==
    (nbt.mode = "docraw" /\ NbtDone) =>
        LET d == EnsuredDecode(nbt.stream, Signed(nbt.io.acc.limit), nbt.checks, nbt.io.host)
        IN  d.res = nbt.res /\ d.dval = nbt.dval /\ d.pos = nbt.io.pos

\* C30: budget monotonicity.  When EnsuredCompoundTag decode of a stream succeeds
\* under a nonzero limit L, its decode under every limit L' >= L and under limit 0
\* succeeds with the same value and the same bytes consumed; a decode under any
\* limit either fails with a budget error or gives what the decode under limit 0
\* gives.
C30_BudgetMonotone ==
    /\ DecodeIsFunction
    /\ (nbt.mode = "docraw" /\ NbtDone /\ nbt.res = Ok /\ ~Unlimited) =>
          \A m \in LimitsFrom(Signed(nbt.io.acc.limit)) :
              LET d == EnsuredDecode(nbt.stream, m, nbt.checks, nbt.io.host)
              IN  d.res = Ok /\ d.dval = nbt.dval /\ d.pos = nbt.io.pos
    /\ (nbt.mode = "docraw" /\ NbtDone /\ nbt.res.e \notin BudgetErrors) =>
          LET u == EnsuredDecode(nbt.stream, 0, nbt.checks, nbt.io.host)
          IN  u.res = nbt.res /\ u.dval = nbt.dval /\ u.pos = nbt.io.pos

\* C30 witness: a document holding an empty Compound was decoded under the limit
\* 48 that it uses up, and decodes to the same under the limits 50 and 0.
C30_Witness ==
    /\ nbt.mode = "docraw" /\ NbtDone /\ nbt.res = Ok /\ nbt.stream = <<10, 0, 0, 0>>
    /\ nbt.io.acc.limit = U64(48) /\ nbt.io.acc.current = U64(48)
    /\ nbt.dval = Some(CompoundTag(<<>>))
    /\ EnsuredDecode(nbt.stream, 50, nbt.checks, nbt.io.host).dval = nbt.dval
    /\ EnsuredDecode(nbt.stream, 0, nbt.checks, nbt.io.host).dval = nbt.dval

=============================================================================
